---------------------------- MODULE Spec2Model ----------------------------
(***************************************************************************)
(* A model of the photo-product storefront app:                            *)
(*   - the three client-side state containers (CartContext,                *)
(*     FavoritesContext, NotificationContext) and the AsyncStorage keys    *)
(*     they mirror their lists to;                                         *)
(*   - the mock services (ProductService, MyProductsService, AuthService); *)
(*   - the search debounce of the list screens;                            *)
(*   - the AuthContext session over SecureStore.                           *)
(*                                                                         *)
(* React state is modelled as two values per piece of state: the state     *)
(* itself (the value last passed to the setter) and the value the          *)
(* functions of the last render closed over (xxxView).  A handler reads    *)
(* the view; the action render copies the state into the view.             *)
(*                                                                         *)
(* JSON.stringify turns every Date into its ISO string and JSON.parse      *)
(* leaves it a string.  A timestamp is modelled by its kind, "Date" or     *)
(* "string"; a JSON text is modelled by the value it denotes, all          *)
(* timestamps of kind "string".                                            *)
(*                                                                         *)
(* The three providers share no state and use three different storage      *)
(* keys, so a behaviour of one is independent of the others'.  SpecCtx     *)
(* follows one provider per behaviour: Init chooses which (scope).         *)
(*                                                                         *)
(* SpecServices follows ProductService or MyProductsService, SpecSearch    *)
(* the search of a list screen, SpecAuth the AuthProvider with AuthService *)
(* and SecureStore.  In these the functions called are those of the last   *)
(* render: the render follows the state change in the same step.  The      *)
(* variables of the parts a specification does not follow keep their       *)
(* idle values.                                                            *)
(*                                                                         *)
(* SpecList follows the product list of ProductsScreen: its loads, the     *)
(* requests waiting for ProductService and the catalogue growing under it. *)
(***************************************************************************)
EXTENDS Integers, Sequences, FiniteSets, TLC

VARIABLES
    \* ---- providers and AsyncStorage
    scope,          \* the part of the app this behaviour follows
    storage,        \* AsyncStorage: key -> Null or a JSON text
    ioQueue,        \* AsyncStorage calls issued and not yet completed, FIFO
    cartItems,      \* CartProvider: useState cartItems
    cartView,       \* cartItems as closed over by the last render
    favorites,      \* FavoritesProvider: useState favorites
    favView,        \* favorites as closed over by the last render
    notifications,  \* NotificationProvider: useState notifications
    notifView,      \* notifications as closed over by the last render
    unreadCount,    \* NotificationProvider: useState unreadCount
    now,            \* Date.now(), in milliseconds
    hist,           \* history of the sessions, read by the properties only
    \* ---- ProductService and MyProductsService
    products,       \* ProductService.products, the catalogue
    nextUuid,       \* the next value of faker.string.uuid()
    myProducts,     \* AsyncStorage under MyProductsService.STORAGE_KEY
    myCalls,        \* addMyProduct / removeMyProduct calls in progress
    response,       \* the PaginatedResponse returned last, and by which call
    asked,          \* what that call was made over, read by the properties
    submission,     \* CameraScreen: the handleSubmitProduct call, its results
    \* ---- search of a list screen (HomeScreen, ProductsScreen)
    screen,         \* the list screen followed
    mounted,        \* whether it is mounted
    searchQuery,    \* useState: the search text
    debouncedSearchQuery,   \* useState: the search text, debounced
    timers,         \* the pending setTimeout calls of the debounce effect
    stable,         \* for how long the search text has been what it is
    issued,         \* the product requests the last step issued
    quiet,          \* what happened since the search text last changed
    \* ---- AuthService, SecureStore and the AuthProvider
    users,          \* AuthService.users
    uuidsDrawn,     \* how many values faker.string.uuid() has given to users
    secureStore,    \* SecureStore: authToken and userData
    authState,      \* useReducer(authReducer, initialState)
    serviceCalls,   \* login / register calls waiting for AuthService
    secureQueue,    \* calls waiting for SecureStore, in the order of issue
    authHist,       \* history of the session, read by the properties only
    \* ---- the product list of ProductsScreen
    listScreen      \* its hooks, and its product requests in flight

ctxVars == <<scope, storage, ioQueue, cartItems, cartView, favorites, favView,
             notifications, notifView, unreadCount, now, hist>>

svcVars == <<products, nextUuid, myProducts, myCalls, response, asked,
             submission>>

srchVars == <<screen, mounted, searchQuery, debouncedSearchQuery, timers,
              stable, issued, quiet>>

authVars == <<users, uuidsDrawn, secureStore, authState, serviceCalls,
              secureQueue, authHist>>

vars == <<ctxVars, svcVars, srchVars, authVars, listScreen>>

\* What the actions of one part of the app leave alone.
otherThanCtx == <<svcVars, srchVars, authVars, listScreen>>

otherThanServices == <<ctxVars, srchVars, authVars, listScreen>>

otherThanSearch == <<ctxVars, svcVars, authVars, listScreen>>

otherThanAuth == <<ctxVars, svcVars, srchVars, listScreen>>

-----------------------------------------------------------------------------
(* Bounds of the model *)

MaxUuids == 3           \* users ever generated

Quantum == 250          \* the step of time, ms

MaxCatalog == 3         \* products in the catalogue
MaxMyProducts == 2      \* products stored under My Products

MaxFavorites == 2       \* longest favorites list
MaxNotifications == 2   \* longest notifications list
MaxPending == 2         \* most AsyncStorage calls in flight

ProductIds == {"p1", "p2"}
Quantities == 1..2       \* the quantities a cart item takes
NewQuantities == -1..2   \* the quantities updateQuantity is called with
Instants == 0..1         \* the values Date.now() takes
Scopes == {"cart", "favorites", "notifications"}

-----------------------------------------------------------------------------
(* Values *)

\* A product as ProductService hands it out: its timestamps are Date objects.
\* parseFloat(faker.commerce.price()): a product keeps the price it was
\* generated with.
priceOf(id) == IF id = "p1" THEN 3 ELSE 5

ServiceProduct(id) == [id |-> id, price |-> priceOf(id), dates |-> "Date"]

Null == [present |-> FALSE, text |-> <<>>]

\* Date.prototype.toJSON: a Date becomes a string; a string stays one.
toJSON(kind) == IF kind = "Date" THEN "string" ELSE kind

JSONproduct(p) == [p EXCEPT !.dates = toJSON(@)]

\* JSON.stringify of a CartItem[], a Product[] and a NotificationData[].
stringifyCart(list) ==
    [present |-> TRUE,
     text |-> [i \in DOMAIN list |->
                 [product |-> JSONproduct(list[i].product),
                  quantity |-> list[i].quantity]]]

stringifyProducts(list) ==
    [present |-> TRUE, text |-> [i \in DOMAIN list |-> JSONproduct(list[i])]]

stringifyNotifications(list) ==
    [present |-> TRUE,
     text |-> [i \in DOMAIN list |->
                 [id |-> list[i].id, read |-> list[i].read,
                  createdAt |-> toJSON(list[i].createdAt)]]]

\* JSON.parse of a stored text: the value the text denotes.
JSONparse(stored) == stored.text

\* Array.prototype.findIndex over cart items by product id: 0-based, -1 if none.
findIndex(list, id) ==
    IF \E i \in DOMAIN list : list[i].product.id = id
    THEN (CHOOSE i \in DOMAIN list :
             /\ list[i].product.id = id
             /\ \A j \in DOMAIN list : list[j].product.id = id => i <= j) - 1
    ELSE -1

-----------------------------------------------------------------------------
(* AsyncStorage *)

getItem(key) == [op |-> "get", key |-> key, value |-> Null]
setItem(key, value) == [op |-> "set", key |-> key, value |-> value]

\* The list the followed provider holds in memory.
Memory ==
    CASE scope = "cart" -> cartItems
      [] scope = "favorites" -> favorites
      [] OTHER -> notifications

stringifyMemory(list) ==
    CASE scope = "cart" -> stringifyCart(list)
      [] scope = "favorites" -> stringifyProducts(list)
      [] OTHER -> stringifyNotifications(list)

WritePending == \E i \in DOMAIN ioQueue : ioQueue[i].op = "set"
LoadPending == \E i \in DOMAIN ioQueue : ioQueue[i].op = "get"

\* A mutation happened.  touched tells whether the session's last mutation
\* so far came before the mount-time load finished ("early") or after it
\* ("late").  What the session remembered of the one before it is dropped.
Mutated ==
    [restarted |-> FALSE, settled |-> TRUE, prevMem |-> <<>>,
     prevUnread |-> 0, prevOrderly |-> TRUE, loaded |-> hist.loaded,
     touched |-> IF LoadPending THEN "early" ELSE "late"]

-----------------------------------------------------------------------------
(* Values of the services *)

\* Strings are sequences of characters.  String.prototype.toLowerCase:
lowerChar(c) == CASE c = "A" -> "a" [] c = "B" -> "b" [] OTHER -> c

toLowerCase(str) == [i \in DOMAIN str |-> lowerChar(str[i])]

\* String.prototype.includes
includes(str, search) ==
    \E k \in 0..(Len(str) - Len(search)) :
        SubSeq(str, k + 1, k + Len(search)) = search

\* Array.prototype.slice(start, end)
slice(list, start, end) ==
    LET len == Len(list)
        from == IF start < 0 THEN (IF len + start < 0 THEN 0 ELSE len + start)
                ELSE (IF start > len THEN len ELSE start)
        to == IF end < 0 THEN (IF len + end < 0 THEN 0 ELSE len + end)
              ELSE (IF end > len THEN len ELSE end)
    IN SubSeq(list, from + 1, to)

\* Math.ceil(a / b) for a >= 0 and b > 0
ceil(a, b) == IF a % b = 0 THEN a \div b ELSE (a \div b) + 1

\* The products generateFakeProducts may give: the texts matter to the search.
Roster ==
    <<[id |-> 1, name |-> <<"A", "b">>, description |-> <<"c">>,
       category |-> <<"d">>, dates |-> "Date"],
      [id |-> 2, name |-> <<"c">>, description |-> <<"a", "B">>,
       category |-> <<"d">>, dates |-> "Date"],
      [id |-> 3, name |-> <<"d">>, description |-> <<"d">>,
       category |-> <<"c", "A", "B">>, dates |-> "Date"],
      [id |-> 4, name |-> <<"c">>, description |-> <<"b", "a">>,
       category |-> <<"d">>, dates |-> "Date"]>>

\* The texts the search is asked for.
Queries == {<<>>, <<"a", "b">>, <<"A", "B">>, <<"B">>, <<"c">>, <<"a", "a">>}

\* What the camera screen submits.
Submitted ==
    {[name |-> <<"a", "b">>, description |-> <<"c">>, category |-> <<"d">>]}

\* CameraScreen before any submission: isSubmitting is false.
NoSubmission ==
    [pc |-> "idle", productData |-> [isNull |-> TRUE],
     newProduct |-> [isNull |-> TRUE], succeeded |-> <<>>]

IdleSvc ==
    /\ submission = NoSubmission
    /\ products = <<>>
    /\ nextUuid = 0
    /\ myProducts = Null
    /\ myCalls = <<>>
    /\ response = [by |-> "none"]
    /\ asked = [by |-> "none"]

\* The state of a list screen's hooks at its first render.
Unmounted ==
    /\ mounted = FALSE
    /\ searchQuery = <<>>
    /\ debouncedSearchQuery = <<>>
    /\ timers = {}
    /\ stable = 0
    /\ issued = <<>>
    /\ quiet = [requests |-> 0, burst |-> 0]

IdleSearch ==
    /\ screen = "none"
    /\ Unmounted

\* ProductsScreen at its first render, before its effects have run.  requests
\* are its loadProducts calls waiting for ProductService, in the order they
\* were made; shownFor, read by the properties only, is the search text each
\* entry of products was asked with.
NoListScreen ==
    [mounted |-> FALSE, products |-> <<>>, shownFor |-> <<>>,
     searchQuery |-> <<>>, debouncedSearchQuery |-> <<>>,
     isLoading |-> FALSE, isRefreshing |-> FALSE, isLoadingMore |-> FALSE,
     page |-> 1, hasMore |-> TRUE, totalProducts |-> 0, requests |-> <<>>]

IdleList == listScreen = NoListScreen

\* null, of a User | null
null == [isNull |-> TRUE]

initialState == [user |-> null, isLoading |-> TRUE, isAuthenticated |-> FALSE]

\* returned: the user the last login or register call that completed gave, if
\*   no logout or updateUser call has been in progress since;
\* restarted: whether the app was restarted since that call completed;
\* checked: how far checkAuthStatus is, "over" once a call followed it.
\* ended: the login, register, logout or updateUser call that ended last, if
\*   no call started since: the error it met and whether it threw it to its
\*   caller.
NoCall == [op |-> "none", error |-> "none", thrown |-> FALSE]

NoAuthHistory ==
    [returned |-> null, restarted |-> FALSE, checked |-> "pending",
     ended |-> NoCall]

IdleAuth ==
    /\ users = <<>>
    /\ uuidsDrawn = 0
    /\ secureStore = [authToken |-> Null, userData |-> Null]
    /\ authState = initialState
    /\ serviceCalls = {}
    /\ secureQueue = <<>>
    /\ authHist = NoAuthHistory

-----------------------------------------------------------------------------
(* CartProvider *)

\* A saveCart that writes the list of the closure, not the new list.
saveCartOfClosure(newCartItems) ==
    Append(ioQueue, setItem("cart", stringifyCart(cartView)))

saveCart(newCartItems) ==
    Append(ioQueue, setItem("cart", stringifyCart(newCartItems)))

\* An addToCart that does not look for the product in the cart.
addToCartItemsNoLookup(items, product, quantity) ==
    Append(items, [product |-> product, quantity |-> quantity])

\* newCartItems of addToCart.  In the first branch the item object is shared
\* with the array of the closure, so the closure sees the new quantity too.
\* An addToCart that puts a new item at the front of the list.
addToCartItemsUnshift(items, product, quantity) ==
    LET existingItemIndex == findIndex(items, product.id) IN
    IF existingItemIndex >= 0
    THEN [items EXCEPT ![existingItemIndex + 1].quantity = @ + quantity]
    ELSE <<[product |-> product, quantity |-> quantity]>> \o items

addToCartItems(items, product, quantity) ==
    LET existingItemIndex == findIndex(items, product.id) IN
    IF existingItemIndex >= 0
    THEN [items EXCEPT ![existingItemIndex + 1].quantity = @ + quantity]
    ELSE Append(items, [product |-> product, quantity |-> quantity])

removeFromCartItems(items, productId) ==
    LET keep(item) == item.product.id # productId IN SelectSeq(items, keep)

\* An updateQuantity that removes the item for negative quantities only.
updateQuantityItemsNegative(items, productId, quantity) ==
    IF quantity < 0
    THEN removeFromCartItems(items, productId)
    ELSE [i \in DOMAIN items |->
            IF items[i].product.id = productId
            THEN [items[i] EXCEPT !.quantity = quantity]
            ELSE items[i]]

updateQuantityItems(items, productId, quantity) ==
    IF quantity <= 0
    THEN removeFromCartItems(items, productId)
    ELSE [i \in DOMAIN items |->
            IF items[i].product.id = productId
            THEN [items[i] EXCEPT !.quantity = quantity]
            ELSE items[i]]

\* setCartItems(newCartItems); saveCart(newCartItems)
CartSet(newCartItems, view) ==
    /\ scope = "cart"
    /\ Len(ioQueue) < MaxPending
    /\ cartItems' = newCartItems
    /\ cartView' = view
    /\ ioQueue' = saveCart(newCartItems)
    /\ hist' = Mutated
    /\ UNCHANGED <<scope, storage, favorites, favView, notifications,
                   notifView, unreadCount, now>>
    /\ UNCHANGED otherThanCtx

addToCart(product, quantity) ==
    LET newCartItems == addToCartItems(cartView, product, quantity) IN
    /\ \A i \in DOMAIN newCartItems : newCartItems[i].quantity \in Quantities
    /\ CartSet(newCartItems,
               IF findIndex(cartView, product.id) >= 0
               THEN newCartItems ELSE cartView)

removeFromCart(productId) ==
    CartSet(removeFromCartItems(cartView, productId), cartView)

updateQuantity(productId, quantity) ==
    CartSet(updateQuantityItems(cartView, productId, quantity), cartView)

clearCart == CartSet(<<>>, cartView)

\* cartItems.reduce((total, item) => total + ..., 0), over the list of the
\* render the function belongs to
RECURSIVE reduceSum(_, _)
reduceSum(terms, total) ==
    IF terms = <<>> THEN total
    ELSE reduceSum(Tail(terms), total + Head(terms))

getTotalItems(items) ==
    reduceSum([i \in DOMAIN items |-> items[i].quantity], 0)

getTotalPrice(items) ==
    reduceSum([i \in DOMAIN items |->
                  items[i].product.price * items[i].quantity], 0)

isInCart(items, productId) ==
    \E i \in DOMAIN items : items[i].product.id = productId

-----------------------------------------------------------------------------
(* FavoritesProvider *)

saveFavorites(newFavorites) ==
    Append(ioQueue, setItem("favorites", stringifyProducts(newFavorites)))

addToFavoritesList(list, product) == Append(list, product)

\* A removeFromFavorites that drops the first favorite, whatever its id.
removeFromFavoritesListHead(list, productId) ==
    IF list = <<>> THEN list ELSE Tail(list)

removeFromFavoritesList(list, productId) ==
    LET keep(item) == item.id # productId IN SelectSeq(list, keep)

isFavorite(productId) == \E i \in DOMAIN favView : favView[i].id = productId

\* setFavorites(newFavorites); saveFavorites(newFavorites)
FavoritesSet(newFavorites) ==
    /\ scope = "favorites"
    /\ Len(ioQueue) < MaxPending
    /\ Len(newFavorites) <= MaxFavorites
    /\ favorites' = newFavorites
    /\ ioQueue' = saveFavorites(newFavorites)
    /\ hist' = Mutated
    /\ UNCHANGED <<scope, storage, cartItems, cartView, favView,
                   notifications, notifView, unreadCount, now>>
    /\ UNCHANGED otherThanCtx

addToFavorites(product) == FavoritesSet(addToFavoritesList(favView, product))

removeFromFavorites(productId) ==
    FavoritesSet(removeFromFavoritesList(favView, productId))

toggleFavorite(product) ==
    IF isFavorite(product.id)
    THEN removeFromFavorites(product.id)
    ELSE addToFavorites(product)

-----------------------------------------------------------------------------
(* NotificationProvider *)

saveNotifications(newNotifications) ==
    Append(ioQueue,
           setItem("notifications", stringifyNotifications(newNotifications)))

\* updateUnreadCount: notificationList.filter(n => !n.read).length
unreadOf(notificationList) ==
    LET unread(n) == ~n.read IN Len(SelectSeq(notificationList, unread))

\* Date.now().toString()
newId == now

addNotificationList(list) ==
    <<[id |-> newId, read |-> FALSE, createdAt |-> "Date"]>> \o list

markAsReadList(list, id) ==
    [i \in DOMAIN list |->
        IF list[i].id = id THEN [list[i] EXCEPT !.read = TRUE] ELSE list[i]]

markAllAsReadList(list) ==
    [i \in DOMAIN list |-> [list[i] EXCEPT !.read = TRUE]]

\* setNotifications(l); setUnreadCount(count); saveNotifications(l)
NotificationsSet(updatedNotifications, count) ==
    /\ scope = "notifications"
    /\ Len(ioQueue) < MaxPending
    /\ Len(updatedNotifications) <= MaxNotifications
    /\ notifications' = updatedNotifications
    /\ unreadCount' = count
    /\ ioQueue' = saveNotifications(updatedNotifications)
    /\ hist' = Mutated
    /\ UNCHANGED <<scope, storage, cartItems, cartView, favorites, favView,
                   notifView, now>>
    /\ UNCHANGED otherThanCtx

addNotification ==
    LET updatedNotifications == addNotificationList(notifView) IN
    NotificationsSet(updatedNotifications, unreadOf(updatedNotifications))

\* The foreground listener is registered by the mount effect and calls the
\* addNotification of the first render, whose notifications is [].
notificationReceived ==
    LET updatedNotifications == addNotificationList(<<>>) IN
    NotificationsSet(updatedNotifications, unreadOf(updatedNotifications))

markAsRead(id) ==
    LET updatedNotifications == markAsReadList(notifView, id) IN
    NotificationsSet(updatedNotifications, unreadOf(updatedNotifications))

\* A markAllAsRead that leaves the count alone.
markAllAsReadNoCount ==
    NotificationsSet(markAllAsReadList(notifView), unreadCount)

markAllAsRead == NotificationsSet(markAllAsReadList(notifView), 0)

clearNotifications == NotificationsSet(<<>>, 0)

\* Time passes.
tick ==
    /\ scope = "notifications"
    /\ now + 1 \in Instants
    /\ now' = now + 1
    /\ UNCHANGED <<scope, storage, ioQueue, cartItems, cartView, favorites,
                   favView, notifications, notifView, unreadCount, hist>>
    /\ UNCHANGED otherThanCtx

-----------------------------------------------------------------------------
(* Mount-time load, completion of writes, render, restart *)

LoadDone == [hist EXCEPT !.loaded = TRUE]

\* loadCart after its await: if (stored) setCartItems(JSON.parse(stored))
loadCart ==
    /\ scope = "cart"
    /\ ioQueue # <<>> /\ Head(ioQueue).op = "get"
    /\ LET stored == storage["cart"] IN
       /\ cartItems' = IF stored.present THEN JSONparse(stored) ELSE cartItems
       /\ hist' = LoadDone
    /\ ioQueue' = Tail(ioQueue)
    /\ UNCHANGED <<scope, storage, cartView, favorites, favView, notifications,
                   notifView, unreadCount, now>>
    /\ UNCHANGED otherThanCtx

loadFavorites ==
    /\ scope = "favorites"
    /\ ioQueue # <<>> /\ Head(ioQueue).op = "get"
    /\ LET stored == storage["favorites"] IN
       /\ favorites' = IF stored.present THEN JSONparse(stored) ELSE favorites
       /\ hist' = LoadDone
    /\ ioQueue' = Tail(ioQueue)
    /\ UNCHANGED <<scope, storage, cartItems, cartView, favView, notifications,
                   notifView, unreadCount, now>>
    /\ UNCHANGED otherThanCtx

\* A loadNotifications that does not call updateUnreadCount.
loadNotificationsNoCount ==
    /\ scope = "notifications"
    /\ ioQueue # <<>> /\ Head(ioQueue).op = "get"
    /\ LET stored == storage["notifications"] IN
       notifications' =
            IF stored.present THEN JSONparse(stored) ELSE notifications
    /\ hist' = LoadDone
    /\ ioQueue' = Tail(ioQueue)
    /\ UNCHANGED <<scope, storage, cartItems, cartView, favorites, favView,
                   notifView, unreadCount, now>>
    /\ UNCHANGED otherThanCtx

loadNotifications ==
    /\ scope = "notifications"
    /\ ioQueue # <<>> /\ Head(ioQueue).op = "get"
    /\ LET stored == storage["notifications"]
           parsedNotifications == JSONparse(stored) IN
       /\ notifications' =
            IF stored.present THEN parsedNotifications ELSE notifications
       /\ unreadCount' =
            IF stored.present THEN unreadOf(parsedNotifications)
            ELSE unreadCount
       /\ hist' = LoadDone
    /\ ioQueue' = Tail(ioQueue)
    /\ UNCHANGED <<scope, storage, cartItems, cartView, favorites, favView,
                   notifView, now>>
    /\ UNCHANGED otherThanCtx

\* AsyncStorage.setItem completes: the calls complete in the order issued.
writeComplete ==
    /\ ioQueue # <<>> /\ Head(ioQueue).op = "set"
    /\ storage' = [storage EXCEPT ![Head(ioQueue).key] = Head(ioQueue).value]
    /\ ioQueue' = Tail(ioQueue)
    /\ UNCHANGED <<scope, cartItems, cartView, favorites, favView,
                   notifications, notifView, unreadCount, now, hist>>
    /\ UNCHANGED otherThanCtx

\* The provider renders again: its functions close over the current state.
render ==
    /\ <<cartView, favView, notifView>> # <<cartItems, favorites, notifications>>
    /\ cartView' = cartItems
    /\ favView' = favorites
    /\ notifView' = notifications
    /\ UNCHANGED <<scope, storage, ioQueue, cartItems, favorites,
                   notifications, unreadCount, now, hist>>
    /\ UNCHANGED otherThanCtx

NoHistory ==
    [restarted |-> FALSE, settled |-> TRUE, prevMem |-> <<>>,
     prevUnread |-> 0, prevOrderly |-> TRUE, loaded |-> FALSE,
     touched |-> "no"]

\* The app is killed and started again: the memory is lost, calls that have
\* not completed are lost, AsyncStorage is kept, the providers mount.
restart ==
    /\ cartItems' = <<>> /\ cartView' = <<>>
    /\ favorites' = <<>> /\ favView' = <<>>
    /\ notifications' = <<>> /\ notifView' = <<>>
    /\ unreadCount' = 0
    /\ ioQueue' = <<getItem(scope)>>
    /\ hist' = [NoHistory EXCEPT
                  !.restarted = TRUE,
                  !.settled = ~WritePending,
                  !.prevMem = Memory,
                  !.prevUnread = unreadCount,
                  !.prevOrderly = hist.loaded /\ hist.touched # "early"]
    /\ UNCHANGED <<scope, storage, now>>
    /\ UNCHANGED otherThanCtx

InitCtx ==
    /\ scope \in Scopes
    /\ storage = [k \in Scopes |-> Null]
    /\ ioQueue = <<getItem(scope)>>
    /\ cartItems = <<>> /\ cartView = <<>>
    /\ favorites = <<>> /\ favView = <<>>
    /\ notifications = <<>> /\ notifView = <<>>
    /\ unreadCount = 0
    /\ now = 0
    /\ hist = NoHistory
    /\ IdleSvc
    /\ IdleSearch
    /\ IdleAuth
    /\ IdleList

NextCtx ==
    \/ \E id \in ProductIds, q \in Quantities : addToCart(ServiceProduct(id), q)
    \/ \E id \in ProductIds : removeFromCart(id)
    \/ \E id \in ProductIds, q \in NewQuantities : updateQuantity(id, q)
    \/ clearCart
    \/ \E id \in ProductIds : addToFavorites(ServiceProduct(id))
    \/ \E id \in ProductIds : removeFromFavorites(id)
    \/ \E id \in ProductIds : toggleFavorite(ServiceProduct(id))
    \/ addNotification
    \/ notificationReceived
    \/ \E id \in Instants : markAsRead(id)
    \/ markAllAsRead
    \/ clearNotifications
    \/ tick
    \/ loadCart
    \/ loadFavorites
    \/ loadNotifications
    \/ writeComplete
    \/ render
    \/ restart

SpecCtx == InitCtx /\ [][NextCtx]_vars

-----------------------------------------------------------------------------
(* ProductService *)

RosterIds == 1..Len(Roster)

\* generateFakeProducts(n): n products with identifiers of their own.
Catalogues ==
    UNION {{[i \in 1..n |-> Roster[f[i]]] :
                f \in {g \in [1..n -> RosterIds] :
                          \A i, j \in 1..n : i # j => g[i] # g[j]}} :
           n \in 0..MaxCatalog}

\* The page numbers and the page sizes asked for.
Pages == 1..3

Limits == 1..2

getProductsFromNextPage(page, limit) ==
    /\ scope \in {"catalogue", "camera"}
    /\ LET startIndex == page * limit
           endIndex == startIndex + limit
           data == slice(products, startIndex, endIndex)
       IN /\ response' = [by |-> "getProducts", data |-> data, page |-> page,
                          limit |-> limit, total |-> Len(products),
                          totalPages |-> ceil(Len(products), limit)]
          /\ asked' = [by |-> "getProducts", over |-> products, ok |-> TRUE,
                       query |-> <<>>]
    /\ UNCHANGED <<products, nextUuid, myProducts, myCalls, submission>>
    /\ UNCHANGED otherThanServices

getProducts(page, limit) ==
    /\ scope \in {"catalogue", "camera"}
    /\ LET startIndex == (page - 1) * limit
           endIndex == startIndex + limit
           data == slice(products, startIndex, endIndex)
       IN /\ response' = [by |-> "getProducts", data |-> data, page |-> page,
                          limit |-> limit, total |-> Len(products),
                          totalPages |-> ceil(Len(products), limit)]
          /\ asked' = [by |-> "getProducts", over |-> products, ok |-> TRUE,
                       query |-> <<>>]
    /\ UNCHANGED <<products, nextUuid, myProducts, myCalls, submission>>
    /\ UNCHANGED otherThanServices

addProduct(productData) ==
    /\ scope \in {"catalogue", "list"}
    /\ Len(products) < MaxCatalog
    /\ LET newProduct == [id |-> nextUuid, name |-> productData.name,
                          description |-> productData.description,
                          category |-> productData.category, dates |-> "Date"]
       IN products' = <<newProduct>> \o products
    /\ nextUuid' = nextUuid + 1
    /\ UNCHANGED <<myProducts, myCalls, response, asked, submission>>
    /\ UNCHANGED otherThanServices

searchProductsCaseSensitive(query, page, limit) ==
    /\ scope = "catalogue"
    /\ LET matches(product) ==
               \/ includes(toLowerCase(product.name), query)
               \/ includes(toLowerCase(product.description), query)
               \/ includes(toLowerCase(product.category), query)
           filteredProducts == SelectSeq(products, matches)
           startIndex == (page - 1) * limit
           endIndex == startIndex + limit
           data == slice(filteredProducts, startIndex, endIndex)
       IN /\ response' = [by |-> "searchProducts", data |-> data,
                          page |-> page, limit |-> limit,
                          total |-> Len(filteredProducts),
                          totalPages |-> ceil(Len(filteredProducts), limit)]
          /\ asked' = [by |-> "searchProducts", over |-> products,
                       ok |-> TRUE, query |-> query]
    /\ UNCHANGED <<products, nextUuid, myProducts, myCalls, submission>>
    /\ UNCHANGED otherThanServices

searchProducts(query, page, limit) ==
    /\ scope = "catalogue"
    /\ LET matches(product) ==
               \/ includes(toLowerCase(product.name), toLowerCase(query))
               \/ includes(toLowerCase(product.description),
                           toLowerCase(query))
               \/ includes(toLowerCase(product.category), toLowerCase(query))
           filteredProducts == SelectSeq(products, matches)
           startIndex == (page - 1) * limit
           endIndex == startIndex + limit
           data == slice(filteredProducts, startIndex, endIndex)
       IN /\ response' = [by |-> "searchProducts", data |-> data,
                          page |-> page, limit |-> limit,
                          total |-> Len(filteredProducts),
                          totalPages |-> ceil(Len(filteredProducts), limit)]
          /\ asked' = [by |-> "searchProducts", over |-> products,
                       ok |-> TRUE, query |-> query]
    /\ UNCHANGED <<products, nextUuid, myProducts, myCalls, submission>>
    /\ UNCHANGED otherThanServices

-----------------------------------------------------------------------------
(* MyProductsService.  AsyncStorage serves the operations in the order they  *)
(* were issued: myCalls is that queue, each entry the call waiting for its   *)
(* operation.  A call waits first for its getItem (pc "read"), then, if it   *)
(* writes, for its setItem (pc "write").                                     *)

\* JSON.parse of the stored text, or [] when nothing is stored
StoredMyProducts ==
    IF myProducts.present THEN JSONparse(myProducts) ELSE <<>>

\* ok: whether AsyncStorage.getItem succeeded
getMyProducts(ok) == IF ok THEN StoredMyProducts ELSE <<>>

\* The places of the queue of calls in progress.
CallSlots == 1..2

\* The products the user photographed.
OwnProducts == {Roster[1], Roster[2]}

\* The longest list stored or about to be, and the additions still to read:
\* together they bound the lists the model stores.
LongestList ==
    LET lengths == {Len(StoredMyProducts)} \cup
                   {Len(JSONparse(myCalls[i].payload)) :
                        i \in {j \in DOMAIN myCalls : myCalls[j].pc = "write"}}
    IN CHOOSE n \in lengths : \A m \in lengths : m <= n

PendingAdds ==
    Len(SelectSeq(myCalls, LAMBDA c : c.op = "add" /\ c.pc = "read"))

\* during, read by the properties only: the calls that completed while this
\* one was in progress.
MyCall(op, arg) ==
    [op |-> op, arg |-> arg, pc |-> "read", payload |-> <<>>, during |-> <<>>]

addMyProduct(product) ==
    /\ scope = "myProducts"
    /\ Len(myCalls) + 1 \in CallSlots
    /\ LongestList + PendingAdds < MaxMyProducts
    /\ myCalls' = Append(myCalls, MyCall("add", product))
    /\ UNCHANGED <<products, nextUuid, myProducts, response, asked, submission>>
    /\ UNCHANGED otherThanServices

removeMyProduct(productId) ==
    /\ scope \in {"myProducts", "camera"}
    /\ Len(myCalls) + 1 \in CallSlots
    /\ myCalls' = Append(myCalls, MyCall("remove", productId))
    /\ UNCHANGED <<products, nextUuid, myProducts, response, asked, submission>>
    /\ UNCHANGED otherThanServices

\* The getItem of an addMyProduct or removeMyProduct call completes: the call
\* builds its list and issues its setItem.
myProductsRead(ok) ==
    /\ scope \in {"myProducts", "camera"}
    /\ myCalls # <<>>
    /\ Head(myCalls).pc = "read"
    /\ Head(myCalls).op \in {"add", "remove"}
    /\ LET call == Head(myCalls)
           list == getMyProducts(ok)
           updated == IF call.op = "add"
                      THEN <<call.arg>> \o list
                      ELSE SelectSeq(list, LAMBDA p : p.id # call.arg)
       IN myCalls' = Append(Tail(myCalls),
                            [call EXCEPT !.pc = "write",
                                         !.payload = stringifyProducts(updated)])
    /\ UNCHANGED <<products, nextUuid, myProducts, response, asked, submission>>
    /\ UNCHANGED otherThanServices

\* The setItem of a call completes and the call returns.
myProductsWritten ==
    /\ scope \in {"myProducts", "camera"}
    /\ myCalls # <<>>
    /\ Head(myCalls).pc = "write"
    /\ myProducts' = Head(myCalls).payload
    /\ myCalls' = [i \in DOMAIN Tail(myCalls) |->
                      [Tail(myCalls)[i] EXCEPT
                         !.during = Append(@, [op |-> Head(myCalls).op,
                                               arg |-> Head(myCalls).arg])]]
    /\ submission' =
           IF Head(myCalls).op = "add" /\ submission.pc = "addMyProduct"
           THEN [submission EXCEPT
                     !.pc = "done",
                     !.succeeded = Append(@, submission.newProduct)]
           ELSE submission
    /\ UNCHANGED <<products, nextUuid, response, asked>>
    /\ UNCHANGED otherThanServices

\* The getItem of a getMyProductsPaginated call completes and the call
\* returns its page.
getMyProductsPaginated(page, limit, ok) ==
    /\ scope = "myProducts"
    /\ LET allProducts == getMyProducts(ok)
           startIndex == (page - 1) * limit
           endIndex == startIndex + limit
           data == slice(allProducts, startIndex, endIndex)
       IN /\ response' = [by |-> "getMyProductsPaginated", data |-> data,
                          page |-> page, limit |-> limit,
                          total |-> Len(allProducts),
                          totalPages |-> ceil(Len(allProducts), limit)]
          /\ asked' = [by |-> "getMyProductsPaginated",
                       over |-> StoredMyProducts, ok |-> ok, query |-> <<>>]
    /\ UNCHANGED <<products, nextUuid, myProducts, myCalls, submission>>
    /\ UNCHANGED otherThanServices

IdleCtx ==
    /\ storage = [key \in Scopes |-> Null]
    /\ ioQueue = <<>>
    /\ cartItems = <<>> /\ cartView = <<>>
    /\ favorites = <<>> /\ favView = <<>>
    /\ notifications = <<>> /\ notifView = <<>>
    /\ unreadCount = 0
    /\ now = 0
    /\ hist = NoHistory

\* ProductService and MyProductsService share no state: a behaviour follows
\* one of them.  MyProductsService is handed products by its callers.
InitServices ==
    /\ \/ scope = "catalogue" /\ products \in Catalogues
       \/ scope = "myProducts" /\ products = <<>>
    /\ IdleCtx
    /\ IdleSearch
    /\ IdleAuth
    /\ IdleList
    /\ nextUuid = Len(Roster) + 1
    /\ myProducts = Null
    /\ myCalls = <<>>
    /\ response = [by |-> "none"]
    /\ asked = [by |-> "none"]
    /\ submission = NoSubmission

NextServices ==
    \/ \E page \in Pages, limit \in Limits : getProducts(page, limit)
    \/ \E query \in Queries, page \in Pages, limit \in Limits :
           searchProducts(query, page, limit)
    \/ \E productData \in Submitted : addProduct(productData)
    \/ \E product \in OwnProducts : addMyProduct(product)
    \/ \E product \in OwnProducts : removeMyProduct(product.id)
    \/ \E ok \in BOOLEAN : myProductsRead(ok)
    \/ myProductsWritten
    \/ \E page \in Pages, limit \in Limits, ok \in BOOLEAN :
           getMyProductsPaginated(page, limit, ok)

SpecServices == InitServices /\ [][NextServices]_vars

-----------------------------------------------------------------------------
(* CameraScreen: handleSubmitProduct adds the product to the catalogue and   *)
(* then to My Products.  While it runs isSubmitting disables the form, so    *)
(* one submission is in progress at a time; the product screens and the My   *)
(* Products screen go on calling the services.                               *)

\* The identifiers of the products a list screen shows.
ListedIds(list) == {list[i].id : i \in DOMAIN list}

\* The catalogues generateFakeProducts gives to the sessions followed.
CameraCatalogues == {<<>>, <<Roster[1]>>, <<Roster[2], Roster[3]>>}

\* The My Products lists a session may find stored.
StoredLists == {Null, stringifyProducts(<<Roster[4]>>)}

getProductFirst(id) ==
    /\ scope = "camera"
    /\ response' = [by |-> "getProduct",
                    data |-> IF products # <<>> THEN products[1] ELSE null]
    /\ asked' = [by |-> "getProduct", over |-> products, ok |-> TRUE,
                 query |-> <<>>, id |-> id]
    /\ UNCHANGED <<products, nextUuid, myProducts, myCalls, submission>>
    /\ UNCHANGED otherThanServices

getProduct(id) ==
    /\ scope = "camera"
    /\ response' = [by |-> "getProduct",
                    data |-> IF \E i \in DOMAIN products : products[i].id = id
                             THEN products[CHOOSE i \in DOMAIN products :
                                      /\ products[i].id = id
                                      /\ \A j \in DOMAIN products :
                                             products[j].id = id => i <= j]
                             ELSE null]
    /\ asked' = [by |-> "getProduct", over |-> products, ok |-> TRUE,
                 query |-> <<>>, id |-> id]
    /\ UNCHANGED <<products, nextUuid, myProducts, myCalls, submission>>
    /\ UNCHANGED otherThanServices

\* handleSubmitProduct with a form that passes its checks, up to
\* await ProductService.addProduct.
handleSubmitProduct(productForm) ==
    /\ scope = "camera"
    /\ submission.pc \in {"idle", "done"}
    /\ Len(products) < MaxCatalog
    /\ submission' = [submission EXCEPT !.pc = "addProduct",
                                        !.productData = productForm,
                                        !.newProduct = [isNull |-> TRUE]]
    /\ UNCHANGED <<products, nextUuid, myProducts, myCalls, response, asked>>
    /\ UNCHANGED otherThanServices

\* ProductService.addProduct after its delay, and handleSubmitProduct up to
\* the getItem of MyProductsService.addMyProduct.
productAdded ==
    /\ scope = "camera"
    /\ submission.pc = "addProduct"
    /\ Len(myCalls) + 1 \in CallSlots
    /\ LongestList + PendingAdds < MaxMyProducts
    /\ LET productData == submission.productData
           newProduct == [id |-> nextUuid, name |-> productData.name,
                          description |-> productData.description,
                          category |-> productData.category, dates |-> "Date"]
       IN /\ products' = <<newProduct>> \o products
          /\ myCalls' = Append(myCalls, MyCall("add", newProduct))
          /\ submission' = [submission EXCEPT !.pc = "addMyProduct",
                                              !.newProduct = newProduct]
    /\ nextUuid' = nextUuid + 1
    /\ UNCHANGED <<myProducts, response, asked>>
    /\ UNCHANGED otherThanServices

InitCamera ==
    /\ scope = "camera"
    /\ IdleCtx
    /\ IdleSearch
    /\ IdleAuth
    /\ IdleList
    /\ products \in CameraCatalogues
    /\ nextUuid = Len(Roster) + 1
    /\ myProducts \in StoredLists
    /\ myCalls = <<>>
    /\ response = [by |-> "none"]
    /\ asked = [by |-> "none"]
    /\ submission = NoSubmission

NextCamera ==
    \/ \E productForm \in Submitted : handleSubmitProduct(productForm)
    \/ productAdded
    \/ \E ok \in BOOLEAN : myProductsRead(ok)
    \/ myProductsWritten
    \/ \E id \in ListedIds(StoredMyProducts) : removeMyProduct(id)
    \/ \E id \in ListedIds(products) \cup ListedIds(StoredMyProducts) :
           getProduct(id)
    \/ \E limit \in Limits : getProducts(1, limit)

SpecCamera == InitCamera /\ [][NextCamera]_vars

-----------------------------------------------------------------------------
(* The search of a list screen.  SpecSearch follows the search text, its     *)
(* debounced copy, the timers of the debounce effect and the product         *)
(* requests the screen issues; the rest of the screen's state (the list      *)
(* shown, page, hasMore, the loading flags) is not followed here.  React     *)
(* renders a state change and runs the effects of that render before time    *)
(* passes: a step is the handler together with the render it causes.  Time   *)
(* is kept as durations: what remains of a timer, and for how long the       *)
(* search text has been what it is.                                          *)

DebounceDelay == 500

Screens == {"HomeScreen", "ProductsScreen"}

\* What the user may have in the search box.
Texts == {<<>>, <<"a">>, <<"a", "b">>}

\* page + 1 of handleLoadMore
LaterPages == 2..3

\* The longest run of changes, each within the delay of the one before, that
\* quiet.burst counts.
MaxBurst == 2

\* loadProducts(pageNum, search, refresh), up to the service call it makes.
loadProducts(by, run, pageNum, search, refresh) ==
    [by |-> by, run |-> run,
     service |-> IF search # <<>> THEN "searchProducts" ELSE "getProducts",
     pageNum |-> pageNum, search |-> search, refresh |-> refresh,
     text |-> searchQuery', stable |-> stable']

\* setTimeout(() => setDebouncedSearchQuery(searchQuery), 500)
setTimeout(text) == [remaining |-> DebounceDelay, text |-> text]

\* The first render and its effects, in the order the component declares them.
mount ==
    /\ scope = "search"
    /\ ~mounted
    /\ mounted' = TRUE
    /\ UNCHANGED <<screen, searchQuery, debouncedSearchQuery, stable, quiet>>
    /\ timers' = {setTimeout(searchQuery)}
    /\ issued' =
         IF screen = "ProductsScreen"
         THEN <<loadProducts("mountEffect", "first", 1, debouncedSearchQuery,
                             FALSE),
                loadProducts("debouncedEffect", "first", 1,
                             debouncedSearchQuery, TRUE)>>
         ELSE <<loadProducts("debouncedEffect", "first", 1,
                             debouncedSearchQuery, TRUE),
                loadProducts("mountEffect", "first", 1, searchQuery, FALSE)>>
    /\ UNCHANGED otherThanSearch

\* The debounce effect of a render in which searchQuery changed, its cleanup
\* left out: the timer of the render before stays pending.
debounceEffectNoCleanup(query) == timers \cup {setTimeout(query)}

\* The debounce effect of a render in which searchQuery changed: the cleanup
\* of the render before clears its timer, then a new timer is set.
debounceEffect(query) == {setTimeout(query)}

\* onChangeText of the search bar
handleSearch(query) ==
    /\ scope = "search"
    /\ mounted
    /\ searchQuery' = query
    /\ IF query # searchQuery
       THEN /\ timers' = debounceEffect(query)
            /\ stable' = 0
            /\ quiet' = [requests |-> 0,
                         burst |-> IF stable >= DebounceDelay THEN 0
                                   ELSE IF quiet.burst < MaxBurst
                                        THEN quiet.burst + 1 ELSE MaxBurst]
       ELSE UNCHANGED <<timers, stable, quiet>>
    /\ issued' = <<>>
    /\ UNCHANGED <<screen, mounted, debouncedSearchQuery>>
    /\ UNCHANGED otherThanSearch

\* A timer of the debounce effect fires; if debouncedSearchQuery changes, the
\* render runs the effect that depends on it.
timerFires(timer) ==
    /\ scope = "search"
    /\ mounted
    /\ timer \in timers
    /\ timer.remaining = 0
    /\ UNCHANGED <<screen, mounted, searchQuery, stable>>
    /\ timers' = timers \ {timer}
    /\ debouncedSearchQuery' = timer.text
    /\ IF timer.text # debouncedSearchQuery
       THEN /\ issued' = <<loadProducts("debouncedEffect", "update", 1,
                                        timer.text, TRUE)>>
            /\ quiet' = [quiet EXCEPT !.requests = @ + 1]
       ELSE /\ issued' = <<>>
            /\ UNCHANGED quiet
    /\ UNCHANGED otherThanSearch

handleRefresh ==
    /\ scope = "search"
    /\ mounted
    /\ UNCHANGED <<screen, mounted, searchQuery, debouncedSearchQuery, timers,
                   stable, quiet>>
    /\ issued' = <<loadProducts("handleRefresh", "update", 1, searchQuery,
                                TRUE)>>
    /\ UNCHANGED otherThanSearch

\* hasMore, isLoading and page are not followed: the handler may find its
\* condition true, for some page.
handleLoadMore(pageNum) ==
    /\ scope = "search"
    /\ mounted
    /\ UNCHANGED <<screen, mounted, searchQuery, debouncedSearchQuery, timers,
                   stable, quiet>>
    /\ issued' = <<loadProducts("handleLoadMore", "update", pageNum,
                                searchQuery, FALSE)>>
    /\ UNCHANGED otherThanSearch

\* Time passes.  A timer fires no earlier than its delay, possibly later.
elapse ==
    /\ scope = "search"
    /\ mounted
    /\ timers' = {[timer EXCEPT !.remaining = IF @ > Quantum THEN @ - Quantum
                                              ELSE 0] : timer \in timers}
    /\ stable' = IF stable + Quantum < DebounceDelay THEN stable + Quantum
                 ELSE DebounceDelay
    /\ issued' = <<>>
    /\ UNCHANGED <<screen, mounted, searchQuery, debouncedSearchQuery, quiet>>
    /\ UNCHANGED otherThanSearch

\* The screen is removed: the cleanup of the debounce effect clears its
\* timer, and the state of the hooks is gone.
unmount ==
    /\ scope = "search"
    /\ mounted
    /\ mounted' = FALSE
    /\ searchQuery' = <<>>
    /\ debouncedSearchQuery' = <<>>
    /\ timers' = {}
    /\ stable' = 0
    /\ issued' = <<>>
    /\ quiet' = [requests |-> 0, burst |-> 0]
    /\ UNCHANGED screen
    /\ UNCHANGED otherThanSearch

InitSearch ==
    /\ scope = "search"
    /\ screen \in Screens
    /\ Unmounted
    /\ IdleCtx
    /\ IdleSvc
    /\ IdleAuth
    /\ IdleList

NextSearch ==
    \/ mount
    \/ \E query \in Texts : handleSearch(query)
    \/ \E timer \in timers : timerFires(timer)
    \/ handleRefresh
    \/ \E pageNum \in LaterPages : handleLoadMore(pageNum)
    \/ elapse
    \/ unmount

SpecSearch == InitSearch /\ [][NextSearch]_vars

-----------------------------------------------------------------------------
(* AuthService, SecureStore and the AuthProvider.  A call of the provider    *)
(* waits for AuthService (a timer) and then for its SecureStore operations,  *)
(* which SecureStore serves in the order they were issued.  The calls come   *)
(* from the screens AppNavigator shows: login and register from the sign-in  *)
(* screens, logout and updateUser from the profile screens.                  *)

Emails == {"e0", "e1"}

\* The names the user types.
Names == {"n2"}

\* The places of the SecureStore queue, and of the calls waiting for
\* AuthService.
AuthSlots == 1..2

User(id, email, name) ==
    [id |-> id, email |-> email, name |-> name,
     createdAt |-> "Date", updatedAt |-> "Date"]

\* faker gives the name; the model follows one value of it.
generateFakeUser(email) == User(uuidsDrawn + 1, email, "n1")

\* JSON.stringify(user), as the text SecureStore keeps
stringifyUser(user) ==
    [present |-> TRUE,
     text |-> [user EXCEPT !.createdAt = toJSON(@), !.updatedAt = toJSON(@)]]

\* faker.string.alphanumeric(64): the app never compares tokens, the model
\* follows one value.
alphanumeric == [present |-> TRUE, text |-> "token"]

\* A find that looks at the first user only.
findFirstOnly(list, email) ==
    IF list # <<>> /\ list[1].email = email THEN 1 ELSE 0

\* this.users.find((u) => u.email === email): the position, or 0
find(list, email) ==
    IF \E i \in DOMAIN list : list[i].email = email
    THEN CHOOSE i \in DOMAIN list :
             /\ list[i].email = email
             /\ \A j \in DOMAIN list : list[j].email = email => i <= j
    ELSE 0

\* An authReducer whose SET_LOADING also signs the user out.
authReducerLoadingSignsOut(state, action) ==
    CASE action.type = "SET_LOADING" ->
             [state EXCEPT !.isLoading = action.payload,
                           !.isAuthenticated = FALSE]
      [] action.type = "SET_USER" ->
             [state EXCEPT !.user = action.payload,
                           !.isAuthenticated = (action.payload # null),
                           !.isLoading = FALSE]
      [] action.type = "LOGIN_SUCCESS" ->
             [state EXCEPT !.user = action.payload, !.isAuthenticated = TRUE,
                           !.isLoading = FALSE]
      [] action.type = "LOGOUT" ->
             [state EXCEPT !.user = null, !.isAuthenticated = FALSE,
                           !.isLoading = FALSE]
      [] OTHER -> state

authReducerSetUserOnly(state, action) ==
    CASE action.type = "SET_LOADING" ->
             [state EXCEPT !.isLoading = action.payload]
      [] action.type = "SET_USER" ->
             [state EXCEPT !.user = action.payload, !.isLoading = FALSE]
      [] action.type = "LOGIN_SUCCESS" ->
             [state EXCEPT !.user = action.payload, !.isAuthenticated = TRUE,
                           !.isLoading = FALSE]
      [] action.type = "LOGOUT" ->
             [state EXCEPT !.user = null, !.isAuthenticated = FALSE,
                           !.isLoading = FALSE]
      [] OTHER -> state

authReducer(state, action) ==
    CASE action.type = "SET_LOADING" ->
             [state EXCEPT !.isLoading = action.payload]
      [] action.type = "SET_USER" ->
             [state EXCEPT !.user = action.payload,
                           !.isAuthenticated = (action.payload # null),
                           !.isLoading = FALSE]
      [] action.type = "LOGIN_SUCCESS" ->
             [state EXCEPT !.user = action.payload, !.isAuthenticated = TRUE,
                           !.isLoading = FALSE]
      [] action.type = "LOGOUT" ->
             [state EXCEPT !.user = null, !.isAuthenticated = FALSE,
                           !.isLoading = FALSE]
      [] OTHER -> state

dispatch(type, payload) ==
    authState' = authReducer(authState, [payload |-> payload, type |-> type])

\* AppNavigator: nothing while isLoading, else the sign-in screens or the app.
ShowsAuthScreens == ~authState.isLoading /\ ~authState.isAuthenticated

ShowsApp == ~authState.isLoading /\ authState.isAuthenticated

AuthCall(op, pc, user) == [op |-> op, pc |-> pc, user |-> user]

Called == [authHist EXCEPT !.checked = "over", !.ended = NoCall]

\* What a failing SecureStore operation throws.
StorageError == "SecureStore"

Ended(history, op, error, thrown) ==
    [history EXCEPT !.ended = [op |-> op, error |-> error, thrown |-> thrown]]

\* login(credentials), up to its await of AuthService.login.  The password is
\* passed on and never read.
login(email) ==
    /\ scope = "auth"
    /\ ShowsAuthScreens
    /\ Cardinality(serviceCalls) + 1 \in AuthSlots
    /\ dispatch("SET_LOADING", TRUE)
    /\ serviceCalls' = serviceCalls \cup {[op |-> "login", email |-> email,
                                           name |-> "none"]}
    /\ authHist' = Called
    /\ UNCHANGED <<users, uuidsDrawn, secureStore, secureQueue>>
    /\ UNCHANGED otherThanAuth

\* register(credentials), up to its await of AuthService.register; same: whether
\* password and confirmPassword are the same.
register(email, name, same) ==
    /\ scope = "auth"
    /\ ShowsAuthScreens
    /\ Cardinality(serviceCalls) + 1 \in AuthSlots
    /\ IF same
       THEN /\ dispatch("SET_LOADING", TRUE)
            /\ serviceCalls' = serviceCalls \cup
                   {[op |-> "register", email |-> email, name |-> name]}
       ELSE /\ dispatch("SET_LOADING", FALSE)
            /\ UNCHANGED serviceCalls
    /\ authHist' = IF same THEN Called
                   ELSE Ended(Called, "register", "Senhas não coincidem", TRUE)
    /\ UNCHANGED <<users, uuidsDrawn, secureStore, secureQueue>>
    /\ UNCHANGED otherThanAuth

\* AuthService.login after its delay, never looking the email up.
AuthServiceLoginNoFind(call) ==
    /\ scope = "auth"
    /\ call \in serviceCalls
    /\ call.op = "login"
    /\ uuidsDrawn < MaxUuids
    /\ LET user == User(uuidsDrawn + 1, call.email, "n1")
       IN /\ users' = Append(users, user)
          /\ uuidsDrawn' = uuidsDrawn + 1
          /\ secureQueue' = Append(secureQueue,
                                   AuthCall("login", "authToken", user))
    /\ serviceCalls' = serviceCalls \ {call}
    /\ UNCHANGED <<secureStore, authState, authHist>>
    /\ UNCHANGED otherThanAuth

\* AuthService.login after its delay, and the provider's login up to its await
\* of SecureStore.setItemAsync('authToken', token).
AuthServiceLogin(call) ==
    /\ scope = "auth"
    /\ call \in serviceCalls
    /\ call.op = "login"
    /\ find(users, call.email) = 0 => uuidsDrawn < MaxUuids
    /\ LET found == find(users, call.email)
           user == IF found # 0 THEN users[found]
                   ELSE User(uuidsDrawn + 1, call.email, "n1")
       IN /\ users' = IF found # 0 THEN users ELSE Append(users, user)
          /\ uuidsDrawn' = IF found # 0 THEN uuidsDrawn ELSE uuidsDrawn + 1
          /\ secureQueue' = Append(secureQueue,
                                   AuthCall("login", "authToken", user))
    /\ serviceCalls' = serviceCalls \ {call}
    /\ UNCHANGED <<secureStore, authState, authHist>>
    /\ UNCHANGED otherThanAuth

\* AuthService.register after its delay, never looking the email up.
AuthServiceRegisterNoFind(call) ==
    /\ scope = "auth"
    /\ call \in serviceCalls
    /\ call.op = "register"
    /\ uuidsDrawn < MaxUuids
    /\ LET newUser == User(uuidsDrawn + 1, call.email, call.name)
       IN /\ users' = Append(users, newUser)
          /\ uuidsDrawn' = uuidsDrawn + 1
          /\ secureQueue' = Append(secureQueue,
                                   AuthCall("register", "authToken", newUser))
    /\ serviceCalls' = serviceCalls \ {call}
    /\ UNCHANGED <<secureStore, authState, authHist>>
    /\ UNCHANGED otherThanAuth

\* AuthService.register after its delay: it throws for an email in use, and
\* the provider's catch runs; else the new user goes on to SecureStore.
AuthServiceRegister(call) ==
    /\ scope = "auth"
    /\ call \in serviceCalls
    /\ call.op = "register"
    /\ find(users, call.email) = 0 => uuidsDrawn < MaxUuids
    /\ IF find(users, call.email) # 0
       THEN /\ dispatch("SET_LOADING", FALSE)
            /\ authHist' = Ended(authHist, "register", "Email já cadastrado",
                                 TRUE)
            /\ UNCHANGED <<users, uuidsDrawn, secureQueue>>
       ELSE LET newUser == User(uuidsDrawn + 1, call.email, call.name)
            IN /\ users' = Append(users, newUser)
               /\ uuidsDrawn' = uuidsDrawn + 1
               /\ secureQueue' = Append(secureQueue,
                                        AuthCall("register", "authToken",
                                                 newUser))
               /\ UNCHANGED <<authState, authHist>>
    /\ serviceCalls' = serviceCalls \ {call}
    /\ UNCHANGED secureStore
    /\ UNCHANGED otherThanAuth

\* The operation SecureStore completes next belongs to a call at this place.
Completes(ops, pc) ==
    /\ scope = "auth"
    /\ secureQueue # <<>>
    /\ Head(secureQueue).op \in ops
    /\ Head(secureQueue).pc = pc

Waiting(op) == \E i \in DOMAIN Tail(secureQueue) : Tail(secureQueue)[i].op = op

\* login / register: setItemAsync('authToken', token) completes, or throws.
tokenSaved(ok) ==
    /\ Completes({"login", "register"}, "authToken")
    /\ IF ok
       THEN /\ secureStore' = [secureStore EXCEPT !.authToken = alphanumeric]
            /\ secureQueue' = Append(Tail(secureQueue),
                                     [Head(secureQueue) EXCEPT
                                          !.pc = "userData"])
            /\ UNCHANGED <<authState, authHist>>
       ELSE /\ dispatch("SET_LOADING", FALSE)
            /\ secureQueue' = Tail(secureQueue)
            /\ authHist' = Ended(authHist, Head(secureQueue).op, StorageError,
                                 TRUE)
            /\ UNCHANGED secureStore
    /\ UNCHANGED <<users, uuidsDrawn, serviceCalls>>
    /\ UNCHANGED otherThanAuth

\* login / register: setItemAsync('userData', JSON.stringify(user)) completes,
\* or throws.
userDataSaved(ok) ==
    /\ Completes({"login", "register"}, "userData")
    /\ IF ok
       THEN /\ secureStore' = [secureStore EXCEPT !.userData =
                                   stringifyUser(Head(secureQueue).user)]
            /\ dispatch("LOGIN_SUCCESS", Head(secureQueue).user)
            /\ authHist' = [Ended(authHist, Head(secureQueue).op, "none",
                                  FALSE) EXCEPT
                                !.returned =
                                    IF Waiting("logout") \/ Waiting("updateUser")
                                    THEN null ELSE Head(secureQueue).user,
                                !.restarted = FALSE]
       ELSE /\ dispatch("SET_LOADING", FALSE)
            /\ authHist' = Ended(authHist, Head(secureQueue).op, StorageError,
                                 TRUE)
            /\ UNCHANGED secureStore
    /\ secureQueue' = Tail(secureQueue)
    /\ UNCHANGED <<users, uuidsDrawn, serviceCalls>>
    /\ UNCHANGED otherThanAuth

\* logout(), up to its await of deleteItemAsync('authToken')
logout ==
    /\ scope = "auth"
    /\ ShowsApp
    /\ Len(secureQueue) + 1 \in AuthSlots
    /\ secureQueue' = Append(secureQueue, AuthCall("logout", "authToken", null))
    /\ authHist' = [Called EXCEPT !.returned = null, !.restarted = FALSE]
    /\ UNCHANGED <<users, uuidsDrawn, secureStore, authState, serviceCalls>>
    /\ UNCHANGED otherThanAuth

tokenDeleted(ok) ==
    /\ Completes({"logout"}, "authToken")
    /\ IF ok
       THEN /\ secureStore' = [secureStore EXCEPT !.authToken = Null]
            /\ secureQueue' = Append(Tail(secureQueue),
                                     [Head(secureQueue) EXCEPT
                                          !.pc = "userData"])
            /\ UNCHANGED authHist
       ELSE /\ secureQueue' = Tail(secureQueue)
            /\ authHist' = Ended(authHist, "logout", StorageError, FALSE)
            /\ UNCHANGED secureStore
    /\ UNCHANGED <<users, uuidsDrawn, authState, serviceCalls>>
    /\ UNCHANGED otherThanAuth

userDataDeleted(ok) ==
    /\ Completes({"logout"}, "userData")
    /\ IF ok
       THEN /\ secureStore' = [secureStore EXCEPT !.userData = Null]
            /\ dispatch("LOGOUT", null)
            /\ authHist' = Ended(authHist, "logout", "none", FALSE)
       ELSE /\ authHist' = Ended(authHist, "logout", StorageError, FALSE)
            /\ UNCHANGED <<secureStore, authState>>
    /\ secureQueue' = Tail(secureQueue)
    /\ UNCHANGED <<users, uuidsDrawn, serviceCalls>>
    /\ UNCHANGED otherThanAuth

\* updateUser(updatedData), up to its await of setItemAsync('userData', ...)
updateUser(name) ==
    /\ scope = "auth"
    /\ ShowsApp
    /\ Len(secureQueue) + 1 \in AuthSlots
    /\ IF authState.user # null
       THEN LET updatedUser == [authState.user EXCEPT !.name = name,
                                                      !.updatedAt = "Date"]
            IN secureQueue' = Append(secureQueue,
                                     AuthCall("updateUser", "userData",
                                              updatedUser))
       ELSE UNCHANGED secureQueue
    /\ authHist' = [Called EXCEPT !.returned = null, !.restarted = FALSE]
    /\ UNCHANGED <<users, uuidsDrawn, secureStore, authState, serviceCalls>>
    /\ UNCHANGED otherThanAuth

userDataUpdated(ok) ==
    /\ Completes({"updateUser"}, "userData")
    /\ IF ok
       THEN /\ secureStore' = [secureStore EXCEPT !.userData =
                                   stringifyUser(Head(secureQueue).user)]
            /\ dispatch("SET_USER", Head(secureQueue).user)
            /\ authHist' = Ended(authHist, "updateUser", "none", FALSE)
       ELSE /\ authHist' = Ended(authHist, "updateUser", StorageError, TRUE)
            /\ UNCHANGED <<secureStore, authState>>
    /\ secureQueue' = Tail(secureQueue)
    /\ UNCHANGED <<users, uuidsDrawn, serviceCalls>>
    /\ UNCHANGED otherThanAuth

\* checkAuthStatus: getItemAsync('authToken') completes, or throws.  The call
\* keeps the token in its field user until it has read userData.
tokenRead(ok) ==
    /\ Completes({"checkAuthStatus"}, "authToken")
    /\ IF ok
       THEN /\ secureQueue' = Append(Tail(secureQueue),
                                     [Head(secureQueue) EXCEPT
                                          !.pc = "userData",
                                          !.user = secureStore.authToken])
            /\ UNCHANGED <<authState, authHist>>
       ELSE /\ dispatch("SET_LOADING", FALSE)
            /\ secureQueue' = Tail(secureQueue)
            /\ authHist' = [authHist EXCEPT !.checked = "failed"]
    /\ UNCHANGED <<users, uuidsDrawn, secureStore, serviceCalls>>
    /\ UNCHANGED otherThanAuth

\* A checkAuthStatus that dispatches nothing when a credential is missing.
userDataReadNoElse(ok) ==
    /\ Completes({"checkAuthStatus"}, "userData")
    /\ LET token == Head(secureQueue).user
           userString == secureStore.userData
       IN IF ok
          THEN /\ IF token.present /\ userString.present
                  THEN dispatch("SET_USER", JSONparse(userString))
                  ELSE UNCHANGED authState
               /\ authHist' = [authHist EXCEPT !.checked = "ok"]
          ELSE /\ dispatch("SET_LOADING", FALSE)
               /\ authHist' = [authHist EXCEPT !.checked = "failed"]
    /\ secureQueue' = Tail(secureQueue)
    /\ UNCHANGED <<users, uuidsDrawn, secureStore, serviceCalls>>
    /\ UNCHANGED otherThanAuth

\* checkAuthStatus: getItemAsync('userData') completes, or throws.
userDataRead(ok) ==
    /\ Completes({"checkAuthStatus"}, "userData")
    /\ LET token == Head(secureQueue).user
           userString == secureStore.userData
       IN IF ok
          THEN /\ IF token.present /\ userString.present
                  THEN dispatch("SET_USER", JSONparse(userString))
                  ELSE dispatch("SET_LOADING", FALSE)
               /\ authHist' = [authHist EXCEPT !.checked = "ok"]
          ELSE /\ dispatch("SET_LOADING", FALSE)
               /\ authHist' = [authHist EXCEPT !.checked = "failed"]
    /\ secureQueue' = Tail(secureQueue)
    /\ UNCHANGED <<users, uuidsDrawn, secureStore, serviceCalls>>
    /\ UNCHANGED otherThanAuth

\* The app is stopped and started again: the memory of the process is new,
\* SecureStore keeps what it has, and the provider's mount effect calls
\* checkAuthStatus.
restartAuth(email) ==
    /\ scope = "auth"
    /\ uuidsDrawn < MaxUuids
    /\ users' = <<generateFakeUser(email)>>
    /\ uuidsDrawn' = uuidsDrawn + 1
    /\ authState' = initialState
    /\ serviceCalls' = {}
    /\ secureQueue' = <<AuthCall("checkAuthStatus", "authToken", null)>>
    /\ authHist' = [authHist EXCEPT
                        !.restarted = (authHist.returned # null),
                        !.checked = "pending", !.ended = NoCall]
    /\ UNCHANGED secureStore
    /\ UNCHANGED otherThanAuth

InitAuth ==
    /\ scope = "auth"
    /\ \E email \in Emails :
           users = <<User(1, email, "n1")>>
    /\ uuidsDrawn = 1
    /\ secureStore = [authToken |-> Null, userData |-> Null]
    /\ authState = initialState
    /\ serviceCalls = {}
    /\ secureQueue = <<AuthCall("checkAuthStatus", "authToken", null)>>
    /\ authHist = NoAuthHistory
    /\ IdleCtx
    /\ IdleSvc
    /\ IdleSearch
    /\ IdleList

NextAuth ==
    \/ \E email \in Emails : login(email)
    \/ \E email \in Emails, name \in Names, same \in BOOLEAN :
           register(email, name, same)
    \/ \E call \in serviceCalls : AuthServiceLogin(call)
    \/ \E call \in serviceCalls : AuthServiceRegister(call)
    \/ \E ok \in BOOLEAN : tokenSaved(ok)
    \/ \E ok \in BOOLEAN : userDataSaved(ok)
    \/ logout
    \/ \E ok \in BOOLEAN : tokenDeleted(ok)
    \/ \E ok \in BOOLEAN : userDataDeleted(ok)
    \/ \E name \in Names : updateUser(name)
    \/ \E ok \in BOOLEAN : userDataUpdated(ok)
    \/ \E ok \in BOOLEAN : tokenRead(ok)
    \/ \E ok \in BOOLEAN : userDataRead(ok)
    \/ \E email \in Emails : restartAuth(email)

SpecAuth == InitAuth /\ [][NextAuth]_vars

\* The getItemAsync calls of checkAuthStatus settle: each resolves or throws.
SpecAuthFair ==
    /\ InitAuth
    /\ [][NextAuth]_vars
    /\ WF_vars(\E ok \in BOOLEAN : tokenRead(ok))
    /\ WF_vars(\E ok \in BOOLEAN : userDataRead(ok))

-----------------------------------------------------------------------------
(* The reducer alone: useReducer(authReducer, initialState) under any        *)
(* sequence of the actions its type AuthAction allows.                       *)

\* The values of type User: as AuthService gives them, as updateUser renames
\* them and as JSON.parse gives them back.
Payloads ==
    {[User(id, email, name) EXCEPT !.createdAt = dates, !.updatedAt = dates] :
         id \in 1..MaxUuids, email \in Emails, name \in {"n1"} \cup Names,
         dates \in {"Date", "string"}}

\* dispatch(action): the state becomes authReducer(state, action).  The
\* history keeps the action and the state it was applied to.
reduce(action) ==
    /\ scope = "reducer"
    /\ authState' = authReducer(authState, action)
    /\ authHist' = [dispatched |-> action, from |-> authState]
    /\ UNCHANGED <<users, uuidsDrawn, secureStore, serviceCalls, secureQueue>>
    /\ UNCHANGED otherThanAuth

InitReducer ==
    /\ scope = "reducer"
    /\ IdleAuth
    /\ IdleList
    /\ IdleCtx
    /\ IdleSvc
    /\ IdleSearch

NextReducer ==
    \/ \E payload \in BOOLEAN :
           reduce([payload |-> payload, type |-> "SET_LOADING"])
    \/ \E payload \in Payloads \cup {null} :
           reduce([payload |-> payload, type |-> "SET_USER"])
    \/ \E payload \in Payloads :
           reduce([payload |-> payload, type |-> "LOGIN_SUCCESS"])
    \/ reduce([payload |-> null, type |-> "LOGOUT"])

SpecReducer == InitReducer /\ [][NextReducer]_vars

-----------------------------------------------------------------------------
(* The product list of ProductsScreen over ProductService.  A loadProducts   *)
(* call is followed from the call to its await (the request joins            *)
(* listScreen.requests) and from the answer of ProductService to its end.    *)
(* getProducts answers 500 ms after the call and searchProducts 400 ms       *)
(* after: answers come in the order of the calls, except that a search may   *)
(* overtake a getProducts called less than 100 ms before it.  The debounce   *)
(* of the search text takes 500 ms, so every request made before the text    *)
(* last changed has been answered when the debounced text follows.  The      *)
(* catalogue grows while the screen is shown (the camera screen adds to it). *)

PageSize == 1           \* the page size asked for: 10 in the screen, scaled

MaxRequests == 2        \* most loadProducts calls waiting for the service

\* The catalogues generateFakeProducts leaves for the list screen.
ListCatalogues ==
    {<<Roster[4], Roster[1]>>, <<Roster[4], Roster[1], Roster[2]>>}

\* What the user may have in the search box of the list.
ListTexts == {<<>>, <<"a", "b">>}

\* The setTimeout of the service method a request calls, ms.
delay(request) == IF request.search # <<>> THEN 400 ELSE 500

\* ProductService.searchProducts(query, page, limit), or getProducts(page,
\* limit) for an empty search text, over the catalogue as it is now.
serviceResponse(search, page, limit) ==
    LET matches(product) ==
            \/ includes(toLowerCase(product.name), toLowerCase(search))
            \/ includes(toLowerCase(product.description), toLowerCase(search))
            \/ includes(toLowerCase(product.category), toLowerCase(search))
        filteredProducts ==
            IF search # <<>> THEN SelectSeq(products, matches) ELSE products
        startIndex == (page - 1) * limit
        endIndex == startIndex + limit
    IN [data |-> slice(filteredProducts, startIndex, endIndex),
        page |-> page, limit |-> limit, total |-> Len(filteredProducts),
        totalPages |-> ceil(Len(filteredProducts), limit)]

\* loadProducts(pageNum, search, refresh, loadMore), from the call to its
\* await.  sameTick: the call is made in the same commit as the one before it.
loadProductsCalled(s, pageNum, search, refresh, loadMore, sameTick) ==
    IF (s.isLoading \/ s.isLoadingMore) /\ ~refresh
    THEN s
    ELSE [s EXCEPT
            !.isLoadingMore = IF loadMore THEN TRUE ELSE @,
            !.isLoading = IF loadMore THEN @ ELSE TRUE,
            !.requests = Append(@, [pageNum |-> pageNum, search |-> search,
                                    refresh |-> refresh,
                                    sameTick |-> sameTick,
                                    sinceTyped |-> TRUE])]

\* loadProducts from the answer of the service to the end of its finally.
loadProductsAnswered(s, request) ==
    LET res == serviceResponse(request.search, request.pageNum, PageSize)
        replaces == request.pageNum = 1 \/ request.refresh
        asked_ == [i \in DOMAIN res.data |-> request.search]
    IN [s EXCEPT
          !.products = IF replaces THEN res.data ELSE @ \o res.data,
          !.shownFor = IF replaces THEN asked_ ELSE @ \o asked_,
          !.totalProducts = res.total,
          !.hasMore = request.pageNum < res.totalPages,
          !.page = request.pageNum,
          !.isLoading = FALSE,
          !.isLoadingMore = FALSE,
          !.isRefreshing = FALSE]

\* The screen mounts: the effect of the initial load runs, then the effect of
\* the debounced text, which runs at the first render too.
mountList ==
    /\ scope = "list"
    /\ ~listScreen.mounted
    /\ LET first == loadProductsCalled([listScreen EXCEPT !.mounted = TRUE],
                        1, listScreen.debouncedSearchQuery, FALSE, FALSE,
                        FALSE)
           reset == [first EXCEPT !.page = 1, !.hasMore = TRUE]
       IN listScreen' = loadProductsCalled(reset, 1,
                            listScreen.debouncedSearchQuery, TRUE, FALSE,
                            TRUE)
    /\ UNCHANGED <<ctxVars, svcVars, srchVars, authVars>>

\* handleSearch(query), the user changes the search text.  The requests in
\* flight are from before the change.
onChangeText(query) ==
    /\ scope = "list"
    /\ listScreen.mounted
    /\ query # listScreen.searchQuery
    /\ listScreen' =
           [listScreen EXCEPT
              !.searchQuery = query,
              !.requests = [i \in DOMAIN @ |-> [@[i] EXCEPT
                                                  !.sinceTyped = FALSE]]]
    /\ UNCHANGED <<ctxVars, svcVars, srchVars, authVars>>

\* The timer of the debounce effect fires 500 ms after the last change of
\* the text, and the effect of the debounced text runs.
debouncedSearchQueryChanged ==
    /\ scope = "list"
    /\ listScreen.mounted
    /\ listScreen.debouncedSearchQuery # listScreen.searchQuery
    /\ \A i \in DOMAIN listScreen.requests : listScreen.requests[i].sinceTyped
    /\ Len(listScreen.requests) < MaxRequests
    /\ listScreen' =
           loadProductsCalled(
               [listScreen EXCEPT
                  !.debouncedSearchQuery = listScreen.searchQuery,
                  !.page = 1, !.hasMore = TRUE],
               1, listScreen.searchQuery, TRUE, FALSE, FALSE)
    /\ UNCHANGED <<ctxVars, svcVars, srchVars, authVars>>

\* handleRefresh, the user pulls the list down; RefreshControl does not call
\* it while it shows the list refreshing.
onRefresh ==
    /\ scope = "list"
    /\ listScreen.mounted
    /\ ~listScreen.isRefreshing
    /\ Len(listScreen.requests) < MaxRequests
    /\ listScreen' =
           loadProductsCalled(
               [listScreen EXCEPT
                  !.isRefreshing = TRUE, !.page = 1, !.hasMore = TRUE],
               1, listScreen.searchQuery, TRUE, FALSE, FALSE)
    /\ UNCHANGED <<ctxVars, svcVars, srchVars, authVars>>

\* handleLoadMore, the user reaches the end of the list.
onEndReached ==
    /\ scope = "list"
    /\ listScreen.mounted
    /\ listScreen.hasMore /\ ~listScreen.isLoading /\ ~listScreen.isLoadingMore
    /\ Len(listScreen.requests) < MaxRequests
    /\ listScreen.page + 1 \in Pages
    /\ listScreen' =
           loadProductsCalled(listScreen, listScreen.page + 1,
                              listScreen.searchQuery, FALSE, TRUE, FALSE)
    /\ UNCHANGED <<ctxVars, svcVars, srchVars, authVars>>

\* Whether the request after the i-th was made in the same commit as the
\* i-th: their timers, of the same delay, run out together.
followedInTick(requests, i) ==
    i + 1 \in DOMAIN requests /\ requests[i + 1].sameTick

\* ProductService answers the i-th request, and with it the request made in
\* the same commit: loadProducts goes on from its await.
responseArrives(i) ==
    /\ scope = "list"
    /\ i \in DOMAIN listScreen.requests
    /\ ~listScreen.requests[i].sameTick
    /\ \A j \in 1..(i - 1) :
           delay(listScreen.requests[j]) > delay(listScreen.requests[i])
    /\ LET requests == listScreen.requests
           last == IF followedInTick(requests, i) THEN i + 1 ELSE i
           once == loadProductsAnswered(listScreen, requests[i])
           both == IF last = i THEN once
                   ELSE loadProductsAnswered(once, requests[last])
       IN listScreen' =
              [both EXCEPT
                 !.requests = SubSeq(requests, 1, i - 1)
                              \o SubSeq(requests, last + 1, Len(requests))]
    /\ UNCHANGED <<ctxVars, svcVars, srchVars, authVars>>

InitList ==
    /\ scope = "list"
    /\ IdleCtx
    /\ IdleSearch
    /\ IdleAuth
    /\ IdleList
    /\ products \in ListCatalogues
    /\ nextUuid = Len(Roster) + 1
    /\ myProducts = Null
    /\ myCalls = <<>>
    /\ response = [by |-> "none"]
    /\ asked = [by |-> "none"]
    /\ submission = NoSubmission

NextList ==
    \/ mountList
    \/ \E query \in ListTexts : onChangeText(query)
    \/ debouncedSearchQueryChanged
    \/ onRefresh
    \/ onEndReached
    \/ \E i \in 1..MaxRequests : responseArrives(i)
    \/ \E productData \in Submitted : addProduct(productData)

SpecList == InitList /\ [][NextList]_vars

-----------------------------------------------------------------------------
(* Properties of the providers *)

NoDuplicates(list, key(_)) ==
    \A i, j \in DOMAIN list : key(list[i]) = key(list[j]) => i = j

\* The stored list is the JSON text of list; with nothing stored, list is [].
StoredIs(list) ==
    IF storage[scope].present
    THEN storage[scope] = stringifyMemory(list)
    ELSE list = <<>>

\* What JSON.parse(JSON.stringify(list)) gives.
Revive(list) == JSONparse(stringifyMemory(list))

\* A step that issues a write.
IssuesWrite ==
    /\ Len(ioQueue') = Len(ioQueue) + 1
    /\ ioQueue'[Len(ioQueue')].op = "set"

C5_CartIdsUnique ==
    LET id(item) == item.product.id IN
    NoDuplicates(cartItems, id) /\ NoDuplicates(cartView, id)

C5_Witness ==
    /\ Len(cartItems) = 2
    /\ cartItems[1].quantity = 2
    /\ hist.restarted /\ hist.loaded

\* C6 as stated: the favorites list holds no two products with the same id.
C6_FavoriteIdsUnique ==
    LET id(item) == item.id IN NoDuplicates(favorites, id)

\* C7 as stated: no two notifications of the list have the same identifier.
C7_NotificationIdsUnique ==
    LET id(n) == n.id IN NoDuplicates(notifications, id)

-----------------------------------------------------------------------------
(* Properties of the services *)

Min(a, b) == IF a < b THEN a ELSE b

\* data is the page of the list: its elements at the zero-based positions
\* (page - 1) * limit up to, and excluding, min(page * limit, N), in order.
IsPageOf(data, list, page, limit) ==
    LET first == (page - 1) * limit
        last == Min(page * limit, Len(list))
    IN /\ Len(data) = (IF last > first THEN last - first ELSE 0)
       /\ \A k \in 1..Len(data) : data[k] = list[first + k]

\* pages is the least number of pages of the given size that hold n elements
IsPageCount(pages, n, limit) ==
    /\ pages * limit >= n
    /\ pages > 0 => (pages - 1) * limit < n

SameLetter(c, d) ==
    \/ c = d
    \/ {c, d} \in {{"a", "A"}, {"b", "B"}}

\* text contains query as a substring, whatever the case of the letters
Contains(text, query) ==
    \E k \in 0..(Len(text) - Len(query)) :
        \A i \in 1..Len(query) : SameLetter(text[k + i], query[i])

Matches(product, query) ==
    \/ Contains(product.name, query)
    \/ Contains(product.description, query)
    \/ Contains(product.category, query)

\* The positions of the catalogue that hold a match, and the n-th of them.
MatchingPositions(list, query) ==
    {i \in DOMAIN list : Matches(list[i], query)}

NthOf(positions, n) ==
    CHOOSE i \in positions : Cardinality({j \in positions : j < i}) = n - 1

\* C4: searchProducts(query, page, limit) pages over exactly the products
\* whose name, description or category contains the query as a substring,
\* whatever the case, kept in catalogue order; total is the number of matches
\* and totalPages = ceil(total / limit).
C4_SearchPagesOverMatches ==
    response.by = "searchProducts" =>
        LET positions == MatchingPositions(asked.over, asked.query)
            first == (response.page - 1) * response.limit
            last == Min(response.page * response.limit,
                        Cardinality(positions))
        IN /\ response.total = Cardinality(positions)
           /\ IsPageCount(response.totalPages, response.total, response.limit)
           /\ Len(response.data) = (IF last > first THEN last - first ELSE 0)
           /\ \A k \in 1..Len(response.data) :
                  response.data[k] = asked.over[NthOf(positions, first + k)]

\* A search in another case than the catalogue's texts returned the second
\* page of its matches, some product of the catalogue not being a match.
C4_Witness ==
    /\ response.by = "searchProducts"
    /\ asked.query = <<"A", "B">>
    /\ response.page = 2 /\ response.limit = 1
    /\ response.total = 2
    /\ Len(asked.over) = 3
    /\ Len(response.data) = 1

-----------------------------------------------------------------------------
(* Properties of the search *)

\* C8: the effect on debouncedSearchQuery issues a request for a text only
\* when the search text is that text and has been for 500 ms (its run at the
\* first render asks for the unfiltered list); the only pending timer is the
\* one of the current text, set when the text last changed, every earlier one
\* having been cleared; keystrokes that follow each other within the delay
\* give at most one such request, for the last text.
C8_DebouncedRequests ==
    /\ \A i \in DOMAIN issued :
           issued[i].by = "debouncedEffect" =>
               /\ issued[i].search = issued[i].text
               /\ \/ issued[i].stable >= DebounceDelay
                  \/ /\ issued[i].run = "first"
                     /\ issued[i].service = "getProducts"
    /\ \A timer \in timers :
           /\ timer.text = searchQuery
           /\ timer.remaining + stable >= DebounceDelay
    /\ Cardinality(timers) <= 1
    /\ quiet.requests <= 1

\* After keystrokes within the delay of each other, the effect asked for the
\* last text typed, once.
C8_Witness ==
    /\ Len(issued) = 1
    /\ issued[1].by = "debouncedEffect"
    /\ issued[1].service = "searchProducts"
    /\ issued[1].search = <<"a", "b">>
    /\ quiet.burst >= 2
    /\ quiet.requests = 1

-----------------------------------------------------------------------------
(* Properties of the session *)

BothStored == secureStore.authToken.present /\ secureStore.userData.present

\* The user as JSON.parse(JSON.stringify(user)) gives it: the timestamps are
\* ISO strings.
ReviveUser(user) ==
    [user EXCEPT !.createdAt = "string", !.updatedAt = "string"]

RestartedAfterLogin ==
    /\ authHist.returned # null
    /\ authHist.restarted
    /\ authHist.checked = "ok"

ProviderMounts ==
    secureQueue' = <<AuthCall("checkAuthStatus", "authToken", null)>>

Holders(list, email) == {i \in DOMAIN list : list[i].email = email}

\* C10: whenever AuthService.login returns to a call, it returns a user (the
\* call goes on to SecureStore, the provider's catch does not run); if no
\* user had the email, the user list grew by exactly that user, new and with
\* that email, else the list is unchanged and the user is the one that had
\* the email; the list then has one entry for the email.
C10_LoginFindsOrCreates ==
    [][\A call \in serviceCalls :
           (call.op = "login" /\ call \notin serviceCalls' /\ ~ProviderMounts)
           => /\ Len(secureQueue') = Len(secureQueue) + 1
              /\ authState' = authState
              /\ LET given == secureQueue'[Len(secureQueue')]
                 IN /\ given.op = "login" /\ given.pc = "authToken"
                    /\ given.user.email = call.email
                    /\ IF Holders(users, call.email) = {}
                       THEN /\ users' = Append(users, given.user)
                            /\ \A i \in DOMAIN users :
                                   users[i].id # given.user.id
                       ELSE /\ users' = users
                            /\ \E i \in Holders(users, call.email) :
                                   users[i] = given.user
              /\ Cardinality(Holders(users', call.email)) = 1]_vars

\* A login was given a user that had registered before, the list not growing.
C10_Witness ==
    /\ Len(users) = 2
    /\ \E i \in DOMAIN secureQueue :
           /\ secureQueue[i].op = "login"
           /\ secureQueue[i].pc = "authToken"
           /\ secureQueue[i].user = users[2]
           /\ secureQueue[i].user.name = "n2"

\* C11: when AuthService.register returns to a call whose email a user has,
\* the call throws 'Email já cadastrado'; the user list and secure storage
\* are as before and nothing is on its way to secure storage, user and
\* isAuthenticated are as before (null and false if they were) and isLoading
\* is false.  A register call whose passwords differ throws 'Senhas não
\* coincidem' without calling the service.
C11_RegisterFailsCleanly ==
    [][/\ \A call \in serviceCalls :
              (/\ call.op = "register"
               /\ call \notin serviceCalls'
               /\ ~ProviderMounts
               /\ Holders(users, call.email) # {})
              => /\ authHist'.ended = [op |-> "register",
                                       error |-> "Email já cadastrado",
                                       thrown |-> TRUE]
                 /\ users' = users
                 /\ secureStore' = secureStore
                 /\ secureQueue' = secureQueue
                 /\ authState'.user = authState.user
                 /\ authState'.isAuthenticated = authState.isAuthenticated
                 /\ ~authState'.isLoading
       /\ \A email \in Emails, name \in Names :
              register(email, name, FALSE)
              => /\ authHist'.ended = [op |-> "register",
                                       error |-> "Senhas não coincidem",
                                       thrown |-> TRUE]
                 /\ serviceCalls' = serviceCalls
                 /\ users' = users
                 /\ secureStore' = secureStore
                 /\ secureQueue' = secureQueue]_vars

\* A registration with an email in use has failed, the visitor still signed
\* out.
C11_Witness ==
    /\ authHist.ended = [op |-> "register", error |-> "Email já cadastrado",
                         thrown |-> TRUE]
    /\ authState = [user |-> null, isLoading |-> FALSE,
                    isAuthenticated |-> FALSE]
    /\ ~secureStore.authToken.present
    /\ ~secureStore.userData.present

\* C13: when the session's only mutations came before its mount-time load
\* finished, once the load and every write have completed the stored list is
\* the JSON text of the list in memory.
C13_EarlyMutationKept ==
    (hist.touched = "early" /\ hist.loaded /\ ioQueue = <<>>)
    => StoredIs(Memory)

\* C14: no cart addition is lost: every product in the cart when addToCart
\* is called is in the cart after it, with no smaller a quantity.
C14_NoAdditionLost ==
    [][(\E id \in ProductIds, q \in Quantities :
            addToCart(ServiceProduct(id), q))
       => \A i \in DOMAIN cartItems :
              \E j \in DOMAIN cartItems' :
                  /\ cartItems'[j].product.id = cartItems[i].product.id
                  /\ cartItems'[j].quantity >= cartItems[i].quantity]_vars

\* C15: a notification received by the foreground listener goes to the front
\* of the list, unread, in front of every notification the list held: the
\* list grows by exactly one.
C15_ReceivedIsPrepended ==
    [][notificationReceived
       => /\ Len(notifications') = Len(notifications) + 1
          /\ ~notifications'[1].read
          /\ Tail(notifications') = notifications]_vars

\* C16: in every state unreadCount is the number of notifications of the
\* list whose read flag is false.
C16_UnreadCountIsOfList ==
    scope = "notifications" => unreadCount = unreadOf(notifications)

\* The load has finished; of the two notifications of the list one has been
\* read, and the count is one.
C16_Witness ==
    /\ scope = "notifications"
    /\ hist.loaded
    /\ Len(notifications) = 2
    /\ notifications[1].read # notifications[2].read
    /\ unreadCount = 1

\* C20: addToCart(p, q) called on the current cart: if p is in the cart, the
\* quantity of its item grows by q and nothing else changes; if not, the item
\* {p, q} goes to the end of the list.  Either way getTotalItems grows by q,
\* getTotalPrice by p.price * q, and isInCart(p.id) is true.
C20_AddToCartAdds ==
    [][\A id \in ProductIds, q \in Quantities :
           LET p == ServiceProduct(id)
               at == findIndex(cartItems, id) + 1
           IN (addToCart(p, q) /\ cartView = cartItems)
              => /\ IF isInCart(cartItems, id)
                    THEN /\ Len(cartItems') = Len(cartItems)
                         /\ \A i \in DOMAIN cartItems :
                                /\ cartItems'[i].product = cartItems[i].product
                                /\ cartItems'[i].quantity =
                                       IF i = at THEN cartItems[i].quantity + q
                                       ELSE cartItems[i].quantity
                    ELSE cartItems' = Append(cartItems,
                                             [product |-> p, quantity |-> q])
                 /\ getTotalItems(cartItems') = getTotalItems(cartItems) + q
                 /\ getTotalPrice(cartItems')
                        = getTotalPrice(cartItems) + p.price * q
                 /\ isInCart(cartItems', id)]_vars

\* The cart after additions of two products, the first one added twice.
C20_Witness ==
    /\ scope = "cart"
    /\ hist.touched = "late"
    /\ cartView = cartItems
    /\ Len(cartItems) = 2
    /\ cartItems[1].quantity = 2
    /\ getTotalItems(cartItems) = 3
    /\ getTotalPrice(cartItems) = 2 * cartItems[1].product.price
                                  + cartItems[2].product.price

\* C21: updateQuantity(id, q) called on the current cart: with q <= 0 the
\* step is the step of removeFromCart(id); with q > 0 the list keeps its
\* length, products and order, the items of that id get quantity q and no
\* other item changes, so that without such an item the cart is unchanged.
\* In every state every cart item has a quantity of at least 1.
C21_UpdateQuantitySets ==
    /\ [][\A id \in ProductIds, q \in NewQuantities :
              (updateQuantity(id, q) /\ cartView = cartItems)
              => IF q <= 0
                 THEN removeFromCart(id)
                 ELSE /\ Len(cartItems') = Len(cartItems)
                      /\ \A i \in DOMAIN cartItems :
                             /\ cartItems'[i].product = cartItems[i].product
                             /\ cartItems'[i].quantity =
                                    IF cartItems[i].product.id = id
                                    THEN q ELSE cartItems[i].quantity
                      /\ ~isInCart(cartItems, id) => cartItems' = cartItems]_vars
    /\ [](\A i \in DOMAIN cartItems : cartItems[i].quantity >= 1)

\* updateQuantity has lowered the quantity of the item the last render shows
\* with quantity 2, next to an item it left alone.
C21_Witness ==
    /\ scope = "cart"
    /\ Len(cartItems) = 2 /\ Len(cartView) = 2
    /\ cartView[1].quantity = 2 /\ cartItems[1].quantity = 1
    /\ cartView[1].product = cartItems[1].product
    /\ cartView[2] = cartItems[2]

\* What toggleFavorite(product) makes of the list once the provider has
\* rendered it.
Toggled(list, product) ==
    IF \E i \in DOMAIN list : list[i].id = product.id
    THEN removeFromFavoritesList(list, product.id)
    ELSE addToFavoritesList(list, product)

\* C22: after toggleFavorite(p) the product p is a favorite exactly when
\* isFavorite(p.id) was false, every other product is a favorite exactly when
\* isFavorite said so, and a second toggleFavorite(p) on the list rendered
\* gives back the set of favorite ids there was.
C22_ToggleFlipsOne ==
    [][\A id \in ProductIds :
           toggleFavorite(ServiceProduct(id))
           => /\ \A other \in ProductIds :
                     (other \in ListedIds(favorites'))
                         <=> IF other = id THEN ~isFavorite(id)
                             ELSE isFavorite(other)
              /\ ListedIds(Toggled(favorites', ServiceProduct(id)))
                     = ListedIds(favView)]_vars

\* toggleFavorite has removed the first of the two favorites rendered.
C22_Witness ==
    /\ scope = "favorites"
    /\ hist.loaded
    /\ Len(favView) = 2
    /\ favView[1].id # favView[2].id
    /\ favorites = <<favView[2]>>

-----------------------------------------------------------------------------
(* Properties of the camera submission *)

\* C12: addProduct puts the submitted product at the front of the catalogue
\* under an identifier no product of the catalogue or of My Products has; when
\* the setItem of its addMyProduct completes the stored list starts with a
\* product of that identifier; from then on getProduct(id) returns the
\* product, and it is the first of page 1 of getProducts while no other
\* product has been added.
C12_SubmittedProductIsListed ==
    /\ [][/\ (submission.pc = "addProduct" /\ submission'.pc # "addProduct")
             => LET new == submission'.newProduct
                IN /\ products' = <<new>> \o products
                   /\ new.id \notin ListedIds(products) \cup ListedIds(StoredMyProducts)
                   /\ new.name = submission.productData.name
          /\ (submission.pc = "addMyProduct" /\ submission'.pc # "addMyProduct")
             => /\ submission'.pc = "done"
                /\ StoredMyProducts' # <<>>
                /\ StoredMyProducts'[1].id = submission.newProduct.id
                /\ products[1] = submission.newProduct]_vars
    /\ [](\A n \in DOMAIN submission.succeeded :
              LET new == submission.succeeded[n]
              IN /\ \E i \in DOMAIN products : products[i] = new
                 /\ (/\ response.by = "getProduct"
                     /\ asked.id = new.id
                     /\ new.id \in ListedIds(asked.over))
                    => response.data = new
                 /\ (/\ response.by = "getProducts"
                     /\ response.page = 1
                     /\ asked.over = products
                     /\ submission.pc = "done"
                     /\ n = Len(submission.succeeded))
                    => response.data[1] = new)

\* Two products have been submitted; getProduct was asked for the first of
\* them after the second was added, and My Products holds both.
C12_Witness ==
    /\ submission.pc = "done"
    /\ Len(submission.succeeded) = 2
    /\ response.by = "getProduct"
    /\ asked.id = submission.succeeded[1].id
    /\ asked.over = products
    /\ Len(StoredMyProducts) = 2

\* A login, register or logout call is in progress.
SessionCallInProgress ==
    \/ serviceCalls # {}
    \/ \E i \in DOMAIN secureQueue :
           secureQueue[i].op \in {"login", "register", "logout"}

\* C18: whenever isAuthenticated is true and no login, register or logout
\* call is in progress, authToken and userData are both in secure storage,
\* also after a secure-storage operation has failed.
C18_AuthenticatedHasCredentials ==
    (scope = "auth" /\ authState.isAuthenticated /\ ~SessionCallInProgress)
    => BothStored

\* A step in which a login or register call ends: its SecureStore call
\* leaves the queue with nothing of the call following it, or AuthService
\* throws, or the passwords differ.
LoginOrRegisterEnds ==
    \/ /\ secureQueue # <<>>
       /\ Head(secureQueue).op \in {"login", "register"}
       /\ secureQueue' = Tail(secureQueue)
    \/ /\ serviceCalls' # serviceCalls
       /\ serviceCalls' \subseteq serviceCalls
       /\ secureQueue' = secureQueue
    \/ \E email \in Emails, name \in Names : register(email, name, FALSE)

\* C19: after a start of the app isLoading becomes false, whatever
\* checkAuthStatus reads or fails to read; a login or register call that ends
\* leaves isLoading false; one that fails leaves user and isAuthenticated as
\* they were and throws its error to its caller.
C19_LoadingEnds ==
    /\ (scope = "auth" /\ authHist.checked = "pending")
       ~> ~authState.isLoading
    /\ [][(LoginOrRegisterEnds /\ ~ProviderMounts)
          => /\ ~authState'.isLoading
             /\ authHist'.ended.op \in {"login", "register"}
             /\ authHist'.ended.error # "none"
                => /\ authState'.user = authState.user
                   /\ authState'.isAuthenticated = authState.isAuthenticated
                   /\ authHist'.ended.thrown
             /\ authHist'.ended.error = "none"
                => authState'.isAuthenticated]_vars

\* A login has failed at SecureStore after a start that found nothing stored.
C19_Witness ==
    /\ authHist.ended = [op |-> "login", error |-> StorageError,
                         thrown |-> TRUE]
    /\ authState = [user |-> null, isLoading |-> FALSE,
                    isAuthenticated |-> FALSE]
    /\ secureStore.authToken.present

-----------------------------------------------------------------------------
(* Properties of the reducer *)

\* C17: in every state the reducer reaches, isAuthenticated is true exactly
\* when user is not null; and the state a SET_LOADING action gives has the
\* user and the isAuthenticated of the state it was applied to.
C17_AuthenticatedIffUser ==
    /\ authState.isAuthenticated <=> authState.user # null
    /\ (authHist # NoAuthHistory /\ authHist.dispatched.type = "SET_LOADING")
       => /\ authState.user = authHist.from.user
          /\ authState.isAuthenticated = authHist.from.isAuthenticated
          /\ authState.isLoading = authHist.dispatched.payload

\* SET_LOADING true has been applied to a state with a user.
C17_Witness ==
    /\ authHist # NoAuthHistory
    /\ authHist.dispatched.type = "SET_LOADING"
    /\ authHist.dispatched.payload
    /\ authHist.from.user # null
    /\ authState.isAuthenticated
    /\ authState.isLoading

-----------------------------------------------------------------------------
(* Properties of My Products *)

\* The identifiers of a list of products, in the order of the list.
IdList(list) == [i \in DOMAIN list |-> list[i].id]

\* The identifier of the product a call names.
Named(call) == IF call.op = "add" THEN call.arg.id ELSE call.arg

\* C26: when two calls of MyProductsService overlap (two addMyProduct calls,
\* or an addMyProduct and a removeMyProduct of another product), the list
\* stored after both have completed reflects both: the products added are
\* stored and the product removed is not.
C26_OverlappingCallsBothKept ==
    [][(myProductsWritten /\ scope = "myProducts")
       => \A k \in DOMAIN Head(myCalls).during :
              LET later == Head(myCalls)
                  earlier == Head(myCalls).during[k]
              IN (Named(earlier) # Named(later)
                  /\ "add" \in {earlier.op, later.op})
                 => /\ earlier.op = "add"
                       => Named(earlier) \in ListedIds(StoredMyProducts')
                    /\ earlier.op = "remove"
                       => Named(earlier) \notin ListedIds(StoredMyProducts')
                    /\ later.op = "add"
                       => Named(later) \in ListedIds(StoredMyProducts')
                    /\ later.op = "remove"
                       => Named(later) \notin ListedIds(StoredMyProducts')]_vars

\* The products of a list other than the one with the given identifier.
OtherThan(list, id) == SelectSeq(IdList(list), LAMBDA other : other # id)

\* C27: addMyProduct and removeMyProduct remove no product other than the one
\* named: when a call that overlapped no other call completes, every other
\* product stored before is still stored, in the same order, also when the
\* read of the storage inside the call failed.
C27_OtherProductsKept ==
    [][(myProductsWritten /\ scope = "myProducts"
        /\ Len(myCalls) = 1 /\ Head(myCalls).during = <<>>)
       => OtherThan(StoredMyProducts', Named(Head(myCalls)))
          = OtherThan(StoredMyProducts, Named(Head(myCalls)))]_vars

-----------------------------------------------------------------------------
(* Properties of the product list *)

\* C23: the product list shown, keyed by product id, never has two entries
\* with the same id, whatever the loads, the searches and the additions to
\* the catalogue between them.
C23_ShownIdsUnique ==
    \A i, j \in DOMAIN listScreen.products :
        listScreen.products[i].id = listScreen.products[j].id => i = j

\* No loadProducts call waits for ProductService and the debounced text has
\* caught up with the search text.
ListSettled ==
    /\ listScreen.mounted
    /\ listScreen.requests = <<>>
    /\ listScreen.debouncedSearchQuery = listScreen.searchQuery

\* When the list is settled, every entry shown was asked with the current
\* search text.
ShownForCurrentText ==
    ListSettled =>
        \A i \in DOMAIN listScreen.shownFor :
            listScreen.shownFor[i] = listScreen.searchQuery

\* The entries shown were all asked with one search text.
ShownForOneText ==
    \A i, j \in DOMAIN listScreen.shownFor :
        listScreen.shownFor[i] = listScreen.shownFor[j]

\* C24: once every product request of the list has settled, what is shown is
\* what was returned for the current search text, in whatever order
\* overlapping requests were answered; and at no time does the list hold
\* pages of two different search texts.
C24_OneQueryShown == ShownForCurrentText /\ ShownForOneText

\* A step starts a loadProducts call that is not a refresh: the first request
\* the step adds to those in flight has refresh false.
NonRefreshStarted ==
    /\ Len(listScreen'.requests) > Len(listScreen.requests)
    /\ ~listScreen'.requests[Len(listScreen.requests) + 1].refresh

\* A non-refresh load is started only when no request is in flight.
StartedAlone ==
    [][NonRefreshStarted => listScreen.requests = <<>>]_vars

\* Load-more asks for no page beyond totalPages of the last response.
WithinTotalPages ==
    [][onEndReached
       => listScreen.page + 1 <= ceil(listScreen.totalProducts, PageSize)]_vars

\* C25: a non-refresh load (the initial load or a load-more) is never started
\* while another product request of the screen is in flight, and load-more
\* asks for page + 1 only while hasMore is true, so never for a page beyond
\* totalPages of the last response.
C25_LoadsDoNotOverlap == StartedAlone /\ WithinTotalPages

-----------------------------------------------------------------------------
(* Properties of the user list *)

\* C28: in every state reached by any interleaving of concurrent
\* AuthService.login and AuthService.register calls, no two users of the
\* service's list have the same email.
C28_EmailsUnique ==
    \A i, j \in DOMAIN users : users[i].email = users[j].email => i = j

\* A call has been served and its user created, the user is on its way to
\* SecureStore, and another call with the same email waits for the service.
C28_Witness ==
    /\ scope = "auth"
    /\ Len(users) = 2
    /\ \E call \in serviceCalls : call.email = users[2].email
    /\ \E k \in DOMAIN secureQueue :
           /\ secureQueue[k].pc = "authToken"
           /\ secureQueue[k].user = users[2]

=============================================================================
